---- MODULE Spec2Model ----
(***************************************************************************)
(* Job/page processing pipeline of the fixed-schema application (App.tsx,  *)
(* storageService, geminiService).                                         *)
(*                                                                         *)
(* Granularity.  JavaScript runs every handler to completion between two   *)
(* awaits.  One action of this model is one such synchronous stretch.  A   *)
(* storageService call is one atomic effect on the durable store, applied  *)
(* when it is issued; the continuation after its await is the next action  *)
(* of the same handler.  Where one synchronous stretch makes two job       *)
(* updates in a row (retry resets to queued and processJob at once moves   *)
(* on to converting; the last page settles and Promise.all resolves) the   *)
(* two updates are two actions and nothing else may run between them (see  *)
(* Busy).  Writes that the code does not await (saveJob in updateJob,      *)
(* saveItems, saveItem) are applied in the step that issues them.          *)
(***************************************************************************)
EXTENDS Integers, Sequences, FiniteSets, TLC

\* ---- bounds of the model -------------------------------------------------
MaxJobs == 2        \* files enqueued in PipeSpec
MaxPages == 2       \* pages of a PDF
MaxRuns == 3        \* processJob invocations (enqueue + retries) in Spec
MaxReproc == 1      \* targeted page reprocessings in Spec
MaxQty == 5         \* largest quantity or total on a row
MaxDists == 2       \* distributions of a row
MaxEdits == 3       \* edits of quantities and totals in ItemSpec
MaxLoads == 2       \* reloads of the page
MaxCalls == 6       \* extraction calls submitted in LimitSpec
MaxItems == 1       \* rows one extraction call returns
MaxImports == 3     \* template imports
MaxText == 5        \* characters of a distribution string or a vendor code
MaxReplyLen == 3    \* characters of a short response text
MaxFields == 2      \* fields of a template, and children of a field
MaxExecs == 2       \* executions of processFile (Code.gs)
MaxCopies == 1      \* templates copied in DynamicApp

\* ---- program constants ---------------------------------------------------
CONCURRENCY_LIMIT == 3

VARIABLES
    jobs,       \* React state `jobs`: job id -> job record or NoJob
    items,      \* React state `resultItems`
    dbJobs,     \* IndexedDB store 'jobs'
    dbItems,    \* IndexedDB store 'items'
    dbImages,   \* IndexedDB store 'page_images'
    runs,       \* processJob / handleRetryJob invocations
    reprocs,    \* handleReprocessPage invocations
    deletes,    \* handleDeleteJob invocations awaiting storageService.deleteJob
    limiter,    \* the p-limit instance of geminiService
    nextJob, nextRun, nextReproc,
    cap,        \* how many jobs / runs / reprocessings this behaviour may start
    urls,       \* object URLs created (URL.createObjectURL) and not revoked
    edits,      \* handleItemUpdate calls that changed a quantity or a total
    loads,      \* how many times the page has been loaded again
    selectedJobId,      \* React state `selectedJobId` (0: null)
    currentPageNumber,  \* state of VerificationView (0: null or view closed)
    clearing,   \* stores cleared so far by a pending clearResults (0: none pending)
    restore,    \* restoreData: "pending" while isRestoring, then "done", or "failed"
                \* when its catch ran
    templates,  \* IndexedDB store 'templates' of templateService
    imports,    \* templateService.importTemplate invocations
    now,        \* Date.now()
    rawRow,     \* the row of a response handed to mapRawItemToOCRItem last
    mapped,     \* what mapRawItemToOCRItem made of it
    isLoading,          \* DynamicApp: React state `isLoading`
    selectedTemplate,   \* DynamicApp: id of `selectedTemplate` (<<>>: null)
    dynJobs,            \* DynamicApp: React state `jobs`
    dynRuns,            \* DynamicApp: where the processJob of each job stands
    dynNext,            \* DynamicApp: jobs created so far, plus one
    dynAlerts,          \* DynamicApp: alerts shown by addFilesToQueue
    dynCalls,           \* DynamicApp: extraction calls issued and settled, by job
    dynItems,           \* DynamicApp: resultItems
    replies,    \* response texts that generateContent has resolved with, by call
    template,   \* the template handed to generateColumnDefinitions last
    columns,    \* the column definitions it returned
    callState,  \* how far each call of processPickingList has come
    gasExec,    \* Code.gs: the executions of processFile
    sheetJobs,  \* Code.gs: the rows of the Jobs sheet, below the header
    sheetItems  \* Code.gs: the rows of the Items sheet, below the header

\* what the verification view shows
nav == <<selectedJobId, currentPageNumber>>

\* the template store and what is under way on it
tvars == <<templates, imports, now>>

\* everything else
appVars == <<jobs, items, dbJobs, dbItems, dbImages, runs, reprocs, deletes,
             limiter, nextJob, nextRun, nextReproc, cap, urls, edits, loads, nav, clearing,
             restore>>

\* the row being mapped
pvars == <<rawRow, mapped>>

\* the state of DynamicApp
dvars == <<isLoading, selectedTemplate, dynJobs, dynRuns, dynNext, dynAlerts, dynCalls, dynItems>>

\* the responses of the extraction calls
cvars == <<replies>>

\* what stands outside the two applications' state
gvars == <<template, columns, callState, gasExec, sheetJobs, sheetItems>>

vars == <<appVars, tvars, pvars, dvars, cvars, gvars>>

NoJob == [status |-> "absent"]
NoImg == <<-1, -1>>

JobIds == 1..cap.jobs
RunIds == 1..cap.runs
ReprocIds == 1..cap.reproc

\* A File: an image (one page, passed through) or a PDF of n pages.
Files == {[pdf |-> FALSE, n |-> 1]} \cup {[pdf |-> TRUE, n |-> k] : k \in 0..MaxPages}

IdleRun == [pc |-> "idle", job |-> 0, file |-> [pdf |-> FALSE, n |-> 1],
            pages |-> <<>>, saved |-> 0, completedCount |-> 0, res |-> <<>>,
            snap |-> NoJob, resumed |-> FALSE, rasterCalls |-> 0, wrote |-> 0,
            settled |-> 0, got |-> {}, pre |-> {}]

IdleReproc == [pc |-> "idle", job |-> 0, page |-> 0, ids |-> {}]

\* no template handed over yet
NoTemplate == [given |-> FALSE, fields |-> <<>>]

\* a row of the Jobs sheet: ID, Status, TotalPages, ProcessedPages
JobRow(id, status, total, done) ==
    [id |-> id, status |-> status, totalPages |-> total, processedPages |-> done]

\* an execution of processFile that has not been asked for
IdleExec == [pc |-> "idle", job |-> 0, n |-> 0, i |-> 0, allItems |-> 0, rowIndex |-> 0,
             pending |-> JobRow(0, "none", 0, 0), next |-> "idle"]

\* no extraction call issued
NoCalls == [issued |-> 0, settled |-> 0]

\* no row mapped yet
NoRow == [given |-> FALSE, dists |-> <<>>, vCode |-> <<>>]
NoMapped == [distributions |-> <<>>, calculatedTotal |-> 0, vendorProductCode |-> <<>>,
             isVerified |-> FALSE]

\* ---- helpers -------------------------------------------------------------
\* A string is the sequence of its characters.  " ", "TAB", "LF", "NBSP" and
\* "FW" (U+3000) stand for the white space characters: what \s matches and
\* what trim() removes.
WhiteSpace == {" ", "TAB", "LF", "NBSP", "FW"}
Digits == {"0", "1", "2", "3", "4", "5", "6", "7", "8", "9"}
DigitVal(c) == CASE c = "0" -> 0 [] c = "1" -> 1 [] c = "2" -> 2 [] c = "3" -> 3
                 [] c = "4" -> 4 [] c = "5" -> 5 [] c = "6" -> 6 [] c = "7" -> 7
                 [] c = "8" -> 8 [] c = "9" -> 9

\* s.split(sep) for a separator of one character
RECURSIVE Split(_, _)
Split(s, sep) ==
    IF s = <<>> THEN << <<>> >>
    ELSE LET rest == Split(Tail(s), sep) IN
         IF Head(s) = sep THEN << <<>> >> \o rest
         ELSE << <<Head(s)>> \o Head(rest) >> \o Tail(rest)

RECURSIVE TrimStart(_)
TrimStart(s) == IF s # <<>> /\ Head(s) \in WhiteSpace THEN TrimStart(Tail(s)) ELSE s
RECURSIVE TrimEnd(_)
TrimEnd(s) == IF s # <<>> /\ s[Len(s)] \in WhiteSpace
              THEN TrimEnd(SubSeq(s, 1, Len(s) - 1)) ELSE s
\* s.trim()
Trim(s) == TrimEnd(TrimStart(s))

\* { ...j, ...updates }
Merge(j, u) == [f \in DOMAIN j |-> IF f \in DOMAIN u THEN u[f] ELSE j[f]]

\* updateJob(id, updates): map over prev, then saveJob of the updated job if
\* it is (still) in the list.
UpdateJob(id, u) ==
    IF jobs[id] # NoJob
    THEN /\ jobs' = [jobs EXCEPT ![id] = Merge(jobs[id], u)]
         /\ dbJobs' = [dbJobs EXCEPT ![id] = Merge(jobs[id], u)]
    ELSE UNCHANGED <<jobs, dbJobs>>

\* storageService.getPageImage(jobId, pageIndex)
GetPageImage(j, idx) ==
    IF \E im \in dbImages : im.job = j /\ im.idx = idx
    THEN (CHOOSE im \in dbImages : im.job = j /\ im.idx = idx).blob
    ELSE NoImg

\* storageService.savePageImage(jobId, pageIndex, blob): put under the key
PutPageImage(db, j, idx, blob) ==
    {im \in db : ~(im.job = j /\ im.idx = idx)} \cup {[job |-> j, idx |-> idx, blob |-> blob]}

\* variant: a call is started while activeCount is still at the limit
LimitStartNextOffByOne(l) ==
    IF l.activeCount <= CONCURRENCY_LIMIT /\ Len(l.queue) > 0
    THEN [activeCount |-> l.activeCount + 1,
          queue |-> Tail(l.queue),
          running |-> l.running \cup {Head(l.queue)}]
    ELSE l

\* variant: the waiter that was submitted last is started first
LimitStartNextLifo(l) ==
    IF l.activeCount < CONCURRENCY_LIMIT /\ Len(l.queue) > 0
    THEN [activeCount |-> l.activeCount + 1,
          queue |-> SubSeq(l.queue, 1, Len(l.queue) - 1),
          running |-> l.running \cup {l.queue[Len(l.queue)]}]
    ELSE l

\* pLimit: enqueue, start the head of the queue while a slot is free
LimitStartNext(l) ==
    IF l.activeCount < CONCURRENCY_LIMIT /\ Len(l.queue) > 0
    THEN [activeCount |-> l.activeCount + 1,
          queue |-> Tail(l.queue),
          running |-> l.running \cup {Head(l.queue)}]
    ELSE l

LimitSubmit(l, c) == LimitStartNext([l EXCEPT !.queue = Append(@, c)])

\* a call settles: next() decrements activeCount and starts the next waiter
LimitRelease(l, c) ==
    LimitStartNext([l EXCEPT !.activeCount = @ - 1, !.running = @ \ {c}])

RECURSIVE LimitSubmitAll(_, _)
LimitSubmitAll(l, cs) ==
    IF cs = <<>> THEN l ELSE LimitSubmitAll(LimitSubmit(l, Head(cs)), Tail(cs))

EmptyLimiter == [activeCount |-> 0, queue |-> <<>>, running |-> {}]

\* A synchronous stretch is in the middle of its job updates.
Busy == \E r \in RunIds : runs[r].pc \in {"start", "finishing"}

JobItems(S, j) == {it \in S : it.jobId = j}

\* variant: the item is written as it is
StripNothing(it) == it

\* const { sourceImageUrl, ...itemToSave } = item
Strip(it) == [f \in DOMAIN it \ {"sourceImageUrl"} |-> it[f]]
StripAll(S) == {Strip(it) : it \in S}

\* { ...item, sourceImageUrl: u }
WithUrl(it, u) ==
    [f \in DOMAIN it \cup {"sourceImageUrl"} |-> IF f = "sourceImageUrl" THEN u ELSE it[f]]

\* the object URLs the items of S carry (if (item.sourceImageUrl) ...)
UrlsOf(S) == {it.sourceImageUrl : it \in {x \in S : "sourceImageUrl" \in DOMAIN x}}

\* ---- templateService ------------------------------------------------------
\* A template id is a sequence: <<b>> is the id "b" of a document, and
\* <<b, 0, t>> is `${id}-imported-${t}`.  A missing or empty id is <<>>.
BaseIds == {<<1>>, <<2>>}
ImportedId(id, t) == id \o <<0, t>>

\* the ids of DEFAULT_TEMPLATES
DefaultIds == {<<1>>}

\* What JSON.parse returns for an imported file: id and name may be missing
\* or empty, fields is a list, something else, or missing; v stands for the
\* rest of the content.
Docs == [id : BaseIds \cup {<<>>}, name : {"", "N"}, fields : {"list", "other", "none"},
         v : {1, 2}]

IdleImport == [pc |-> "idle", doc |-> [id |-> <<>>, name |-> "", fields |-> "none", v |-> 1],
               existing |-> FALSE, stored |-> <<>>]

\* getTemplate(id): a stored template, else one of DEFAULT_TEMPLATES
TemplateExists(id) == (\E t \in templates : t.id = id) \/ id \in DefaultIds

\* db.put('templates', template): the store is keyed by id
PutTemplate(store, t) == {x \in store : x.id # t.id} \cup {t}

\* if (!template.id || !template.name || !template.fields ||
\*     !Array.isArray(template.fields)) throw
ValidTemplate(doc) == doc.id # <<>> /\ doc.name # "" /\ doc.fields = "list"

\* importTemplate up to its first await: the file is chosen in the dialog,
\* which takes time; the document is validated; an invalid one is rejected,
\* for a valid one getTemplate(template.id) is issued.
ImportStart(s, doc) ==
    /\ imports[s].pc = "idle"
    /\ \A s2 \in 1..(s - 1) : imports[s2].pc # "idle"
    /\ now' = now + 1
    /\ imports' = [imports EXCEPT ![s] =
                      IF ValidTemplate(doc)
                      THEN [pc |-> "get", doc |-> doc, existing |-> TemplateExists(doc.id),
                            stored |-> <<>>]
                      ELSE [pc |-> "rejected", doc |-> doc, existing |-> FALSE,
                            stored |-> <<>>]]
    /\ UNCHANGED <<templates, appVars, pvars, dvars, cvars, gvars>>

\* after the await: on a duplicate id the id and the name are changed;
\* saveTemplate(template)
ImportFinish(s) ==
    LET rec == imports[s]
        t == IF rec.existing
             THEN [rec.doc EXCEPT !.id = ImportedId(rec.doc.id, now), !.name = "N (import)"]
             ELSE rec.doc IN
    /\ rec.pc = "get"
    /\ templates' = PutTemplate(templates, t)
    /\ imports' = [imports EXCEPT ![s] = [rec EXCEPT !.pc = "done", !.stored = t.id]]
    /\ UNCHANGED <<now, appVars, pvars, dvars, cvars, gvars>>

\* deleteTemplate(id): not for a default template
DeleteTemplate(id) ==
    /\ id \notin DefaultIds
    /\ \E t \in templates : t.id = id
    /\ templates' = {t \in templates : t.id # id}
    /\ UNCHANGED <<imports, now, appVars, pvars, dvars, cvars, gvars>>

\* ---- initial state -------------------------------------------------------
\* onBack / onSelectJob(null): the dashboard is shown, the verification view
\* is unmounted and its state is lost
ToDashboard == selectedJobId' = 0 /\ currentPageNumber' = 0

InitWith(c) ==
    /\ cap = c
    /\ jobs = [j \in 1..c.jobs |-> NoJob]
    /\ dbJobs = [j \in 1..c.jobs |-> NoJob]
    /\ items = {}
    /\ dbItems = {}
    /\ dbImages = {}
    /\ runs = [r \in 1..c.runs |-> IdleRun]
    /\ reprocs = [q \in 1..c.reproc |-> IdleReproc]
    /\ deletes = {}
    /\ limiter = EmptyLimiter
    /\ nextJob = 1
    /\ nextRun = 1
    /\ nextReproc = 1
    /\ urls = {}
    /\ edits = 0
    /\ loads = 0
    /\ selectedJobId = 0
    /\ currentPageNumber = 0
    /\ clearing = 0
    /\ restore = "done"
    /\ templates = {}
    /\ imports = [s \in 1..MaxImports |-> IdleImport]
    /\ now = 0
    /\ rawRow = NoRow
    /\ mapped = NoMapped
    /\ isLoading = TRUE
    /\ selectedTemplate = <<>>
    /\ dynJobs = [j \in 1..MaxJobs |-> NoJob]
    /\ dynRuns = [j \in 1..MaxJobs |-> "idle"]
    /\ dynNext = 1
    /\ dynAlerts = 0
    /\ dynCalls = [j \in 1..MaxJobs |-> NoCalls]
    /\ dynItems = {}
    /\ replies = {}
    /\ template = NoTemplate
    /\ columns = <<>>
    /\ callState = [k \in 1..MaxCalls |-> "none"]
    /\ gasExec = [e \in 1..MaxExecs |-> IdleExec]
    /\ sheetJobs = <<>>
    /\ sheetItems = <<>>

\* ---- addFilesToQueue -----------------------------------------------------
NewJob(f) == [status |-> "queued", totalPages |-> 0, processedPages |-> 0,
              msg |-> <<"waiting", 0, 0>>, err |-> "none", file |-> f]

Enqueue(fs) ==
    LET k == Len(fs) IN
    /\ ~Busy
    /\ restore # "pending"
    /\ k >= 1
    /\ nextJob + k - 1 <= cap.jobs
    /\ nextRun + k - 1 <= cap.runs
    /\ jobs' = [j \in JobIds |-> IF j \in nextJob..(nextJob + k - 1)
                                 THEN NewJob(fs[j - nextJob + 1]) ELSE jobs[j]]
    /\ dbJobs' = [j \in JobIds |-> IF j \in nextJob..(nextJob + k - 1)
                                   THEN NewJob(fs[j - nextJob + 1]) ELSE dbJobs[j]]
    /\ runs' = [r \in RunIds |-> IF r \in nextRun..(nextRun + k - 1)
                                 THEN [IdleRun EXCEPT !.pc = "start",
                                                      !.job = nextJob + (r - nextRun),
                                                      !.file = fs[r - nextRun + 1]]
                                 ELSE runs[r]]
    /\ nextJob' = nextJob + k
    /\ nextRun' = nextRun + k
    /\ ToDashboard
    /\ UNCHANGED <<items, dbItems, dbImages, reprocs, deletes, limiter, nextReproc, cap,
                   urls, edits, loads, clearing, restore, tvars, pvars, dvars, cvars, gvars>>

\* ---- DynamicApp ----------------------------------------------------------
\* useEffect init: templates = await templateService.getAllTemplates(); the
\* first of them is selected; catch: none is; finally setIsLoading(false).
DynInitDone(ok) ==
    /\ isLoading
    /\ isLoading' = FALSE
    /\ IF ok
       THEN \E id \in {t.id : t \in templates} \cup DefaultIds : selectedTemplate' = id
       ELSE selectedTemplate' = <<>>
    /\ UNCHANGED <<dynJobs, dynRuns, dynNext, dynAlerts, dynCalls, dynItems, appVars, tvars, pvars, cvars, gvars>>

\* addFilesToQueue of DynamicApp with no template selected: alert, return
DynRefuse(fs) ==
    /\ ~isLoading
    /\ selectedTemplate = <<>>
    /\ Len(fs) >= 1
    /\ dynAlerts < MaxLoads
    /\ dynAlerts' = dynAlerts + 1
    /\ UNCHANGED <<isLoading, selectedTemplate, dynJobs, dynRuns, dynNext, dynCalls, dynItems, appVars, tvars, pvars, cvars, gvars>>

\* addFilesToQueue of DynamicApp: setJobs(prev => [...prev, ...newJobs]);
\* newJobs.forEach(job => processJob(job)).  Nothing is handed to
\* storageService.
DynEnqueue(fs) ==
    LET k == Len(fs)
        new == dynNext..(dynNext + k - 1) IN
    /\ ~isLoading
    /\ selectedTemplate # <<>>
    /\ k >= 1
    /\ dynNext + k - 1 <= MaxJobs
    /\ dynJobs' = [j \in 1..MaxJobs |->
                      IF j \in new
                      THEN [templateId |-> selectedTemplate] @@ NewJob(fs[j - dynNext + 1])
                      ELSE dynJobs[j]]
    /\ dynRuns' = [j \in 1..MaxJobs |-> IF j \in new THEN "start" ELSE dynRuns[j]]
    /\ dynNext' = dynNext + k
    /\ UNCHANGED <<isLoading, selectedTemplate, dynAlerts, dynCalls, dynItems, appVars, tvars, pvars, cvars, gvars>>

DynUpdateJob(j, u) == dynJobs' = [dynJobs EXCEPT ![j] = Merge(dynJobs[j], u)]

\* processJob of DynamicApp: converting, then convertPdfToImages
DynConvert(j) ==
    /\ dynRuns[j] = "start"
    /\ DynUpdateJob(j, [status |-> "converting", msg |-> <<"converting", 0, 0>>])
    /\ dynRuns' = [dynRuns EXCEPT ![j] = "convert"]
    /\ UNCHANGED <<isLoading, selectedTemplate, dynNext, dynAlerts, dynCalls, dynItems, appVars, tvars, pvars, cvars, gvars>>

\* the page list is ready (processing, totalPages; then await
\* templateService.getTemplate(job.templateId)) or the conversion threw
\* (error)
DynConverted(j, ok) ==
    /\ dynRuns[j] = "convert"
    /\ IF ok
       THEN /\ DynUpdateJob(j, [status |-> "processing", totalPages |-> dynJobs[j].file.n,
                                processedPages |-> 0,
                                msg |-> <<"processing", 0, dynJobs[j].file.n>>])
            /\ dynRuns' = [dynRuns EXCEPT ![j] = "lookup"]
       ELSE /\ dynJobs[j].file.pdf
            /\ DynUpdateJob(j, [status |-> "error", err |-> "raster", msg |-> <<"error", 0, 0>>])
            /\ dynRuns' = [dynRuns EXCEPT ![j] = "idle"]
    /\ UNCHANGED <<isLoading, selectedTemplate, dynNext, dynAlerts, dynCalls, dynItems, appVars, tvars, pvars, cvars, gvars>>

DynRest == UNCHANGED <<isLoading, selectedTemplate, dynNext, dynAlerts, appVars, tvars, pvars, cvars, gvars>>

\* variant: the template that is selected now is looked up
DynLookupSelected(j) ==
    /\ dynRuns[j] = "lookup"
    /\ IF TemplateExists(selectedTemplate)
       THEN /\ dynCalls' = [dynCalls EXCEPT ![j] = [issued |-> dynJobs[j].totalPages, settled |-> 0]]
            /\ dynRuns' = [dynRuns EXCEPT ![j] = "pages"]
            /\ UNCHANGED dynJobs
       ELSE /\ DynUpdateJob(j, [status |-> "error", err |-> "notemplate", msg |-> <<"error", 0, 0>>])
            /\ dynRuns' = [dynRuns EXCEPT ![j] = "idle"]
            /\ UNCHANGED dynCalls
    /\ UNCHANGED dynItems
    /\ DynRest

\* getTemplate(job.templateId) has resolved: with a template, every page
\* gets its object URL and is handed to processDynamicPickingList; with
\* undefined, throw new Error(...), and the catch marks the job failed
DynLookup(j) ==
    /\ dynRuns[j] = "lookup"
    /\ IF TemplateExists(dynJobs[j].templateId)
       THEN /\ dynCalls' = [dynCalls EXCEPT ![j] = [issued |-> dynJobs[j].totalPages, settled |-> 0]]
            /\ dynRuns' = [dynRuns EXCEPT ![j] = "pages"]
            /\ UNCHANGED dynJobs
       ELSE /\ DynUpdateJob(j, [status |-> "error", err |-> "notemplate", msg |-> <<"error", 0, 0>>])
            /\ dynRuns' = [dynRuns EXCEPT ![j] = "idle"]
            /\ UNCHANGED dynCalls
    /\ UNCHANGED dynItems
    /\ DynRest

\* the call of a page settles (here in the order of the pages): with k
\* items, which are tagged and appended, and completedCount++; or with an
\* error, which is logged
DynPage(j, ok, k) ==
    LET c == dynCalls[j] IN
    /\ dynRuns[j] = "pages"
    /\ c.settled < c.issued
    /\ dynCalls' = [dynCalls EXCEPT ![j] = [c EXCEPT !.settled = c.settled + 1]]
    /\ IF ok
       THEN /\ dynItems' = dynItems \cup {[jobId |-> j, pageNumber |-> c.settled + 1, no |-> m,
                                            templateId |-> dynJobs[j].templateId] : m \in 1..k}
            /\ DynUpdateJob(j, [processedPages |-> dynJobs[j].processedPages + 1,
                                msg |-> <<"analysing", dynJobs[j].processedPages + 1,
                                          dynJobs[j].totalPages>>])
       ELSE /\ k = 0
            /\ UNCHANGED <<dynItems, dynJobs>>
    /\ UNCHANGED dynRuns
    /\ DynRest

\* handleDuplicate: duplicateTemplate(id) stores a copy under
\* id-copy-Date.now(), the list is loaded again, the copy is selected
CopyId(id, t) == id \o <<9, t>>
DynDuplicate(id) ==
    /\ ~isLoading
    /\ TemplateExists(id)
    /\ now < MaxCopies
    /\ now' = now + 1
    /\ templates' = PutTemplate(templates, [id |-> CopyId(id, now'), name |-> "N (copy)",
                                            fields |-> "list", v |-> 1])
    /\ selectedTemplate' = CopyId(id, now')
    /\ UNCHANGED <<isLoading, dynJobs, dynRuns, dynNext, dynAlerts, dynCalls, dynItems,
                   imports, appVars, pvars, cvars, gvars>>

\* handleDelete: deleteTemplate(id), not for a default template; if the
\* deleted template was the selected one, the first template of the list as
\* it was rendered is asked for (handleTemplateSelect), and selected if
\* getTemplate still finds it
DynDelete(id, first) ==
    /\ ~isLoading
    /\ id \notin DefaultIds
    /\ \E t \in templates : t.id = id
    /\ first \in {t.id : t \in templates} \cup DefaultIds
    /\ templates' = {t \in templates : t.id # id}
    /\ selectedTemplate' = IF selectedTemplate = id /\ first # id THEN first
                           ELSE selectedTemplate
    /\ UNCHANGED <<isLoading, dynJobs, dynRuns, dynNext, dynAlerts, dynCalls, dynItems,
                   imports, now, appVars, pvars, cvars, gvars>>

\* handleTemplateSelect(templateId): getTemplate, setSelectedTemplate
DynSelect(id) ==
    /\ ~isLoading
    /\ TemplateExists(id)
    /\ selectedTemplate # id
    /\ selectedTemplate' = id
    /\ UNCHANGED <<isLoading, dynJobs, dynRuns, dynNext, dynAlerts, dynCalls, dynItems,
                   appVars, tvars, pvars, cvars, gvars>>

\* await Promise.all(pagePromises); completed
DynFinish(j) ==
    /\ dynRuns[j] = "pages"
    /\ dynCalls[j].settled = dynCalls[j].issued
    /\ DynUpdateJob(j, [status |-> "completed", processedPages |-> dynJobs[j].totalPages,
                        msg |-> <<"done", 0, 0>>])
    /\ dynRuns' = [dynRuns EXCEPT ![j] = "idle"]
    /\ UNCHANGED <<isLoading, selectedTemplate, dynNext, dynAlerts, dynCalls, dynItems, appVars, tvars, pvars, cvars, gvars>>

\* ---- processJob ----------------------------------------------------------
SetRun(r, rec) == runs' = [runs EXCEPT ![r] = rec]

\* processJob up to its first await: updateStatus({status: 'converting'}).
\* newJobs.forEach(processJob) starts the runs in order.
RunStart(r) ==
    /\ runs[r].pc = "start"
    /\ \A r2 \in RunIds : runs[r2].pc = "start" => r <= r2
    /\ UpdateJob(runs[r].job, [status |-> "converting", msg |-> <<"preparing", 0, 0>>])
    /\ SetRun(r, [runs[r] EXCEPT !.pc = "check0"])
    /\ UNCHANGED <<items, dbItems, dbImages, reprocs, deletes, limiter,
                   nextJob, nextRun, nextReproc, cap, urls, edits, loads, nav, clearing, restore, tvars, pvars, dvars, cvars, gvars>>

\* The page list is ready: updateStatus({status: 'processing', ...}), then
\* every page gets its object URL and is handed to processPickingList
\* (limit(...)), in index order.
\* With no page Promise.all resolves at once.
BeginProcessing(r, pages, rec) ==
    LET n == Len(pages) IN
    /\ UpdateJob(rec.job, [status |-> "processing", totalPages |-> n,
                           processedPages |-> 0, msg |-> <<"processing", 0, n>>])
    /\ limiter' = LimitSubmitAll(limiter, [i \in 1..n |-> <<r, i - 1>>])
    /\ urls' = urls \cup {<<r, i - 1>> : i \in 1..n}
    /\ SetRun(r, [rec EXCEPT !.pc = IF n = 0 THEN "finishing" ELSE "pages",
                             !.pages = pages,
                             !.completedCount = 0,
                             !.res = [i \in 1..n |-> "pending"]])

\* variant: the stored images are not looked at, every run prepares its
\* pages anew
CheckFirstPageNoResume(r) ==
    LET rec == runs[r] IN
    /\ ~Busy
    /\ rec.pc = "check0"
    /\ IF rec.file.pdf
       THEN /\ UpdateJob(rec.job, [status |-> "converting", msg |-> <<"pdfconv", 0, 0>>])
            /\ SetRun(r, [rec EXCEPT !.pc = "raster", !.rasterCalls = @ + 1])
       ELSE /\ SetRun(r, [rec EXCEPT !.pc = "saving", !.pages = << <<rec.job, 0>> >>, !.saved = 0])
            /\ UNCHANGED <<jobs, dbJobs>>
    /\ UNCHANGED <<items, dbItems, dbImages, reprocs, deletes, limiter,
                   nextJob, nextRun, nextReproc, cap, urls, edits, loads, nav, clearing, restore, tvars, pvars, dvars, cvars, gvars>>

\* const firstPageBlob = await storageService.getPageImage(job.id, 0)
CheckFirstPage(r) ==
    LET rec == runs[r] IN
    /\ ~Busy
    /\ rec.pc = "check0"
    /\ IF GetPageImage(rec.job, 0) # NoImg
       THEN \* restore from DB: the loop starts again at index 0
            /\ SetRun(r, [rec EXCEPT !.pc = "resume", !.resumed = TRUE, !.pages = <<>>])
            /\ UNCHANGED <<jobs, dbJobs>>
       ELSE IF rec.file.pdf
       THEN /\ UpdateJob(rec.job, [status |-> "converting", msg |-> <<"pdfconv", 0, 0>>])
            /\ SetRun(r, [rec EXCEPT !.pc = "raster", !.rasterCalls = @ + 1])
       ELSE \* filesToProcess = [job.file]
            /\ SetRun(r, [rec EXCEPT !.pc = "saving", !.pages = << <<rec.job, 0>> >>, !.saved = 0])
            /\ UNCHANGED <<jobs, dbJobs>>
    /\ UNCHANGED <<items, dbItems, dbImages, reprocs, deletes, limiter,
                   nextJob, nextRun, nextReproc, cap, urls, edits, loads, nav, clearing, restore, tvars, pvars, dvars, cvars, gvars>>

\* One turn of while(true) { blob = await getPageImage(job.id, pageIdx) ... }
ResumeRead(r) ==
    LET rec == runs[r]
        blob == GetPageImage(rec.job, Len(rec.pages)) IN
    /\ ~Busy
    /\ rec.pc = "resume"
    /\ IF blob # NoImg
       THEN /\ SetRun(r, [rec EXCEPT !.pages = Append(@, blob)])
            /\ UNCHANGED <<jobs, dbJobs, limiter, urls>>
       ELSE BeginProcessing(r, rec.pages, rec)
    /\ UNCHANGED <<items, dbItems, dbImages, reprocs, deletes,
                   nextJob, nextRun, nextReproc, cap, edits, loads, nav, clearing, restore, tvars, pvars, dvars, cvars, gvars>>

\* convertPdfToImages resolves with one image per page of the document.
RasterPages(j, f) == [i \in 1..f.n |-> <<j, i - 1>>]

RasterOk(r) ==
    LET rec == runs[r]
        pages == RasterPages(rec.job, rec.file) IN
    /\ ~Busy
    /\ rec.pc = "raster"
    /\ IF pages = <<>>
       THEN BeginProcessing(r, pages, rec)
       ELSE /\ SetRun(r, [rec EXCEPT !.pc = "saving", !.pages = pages, !.saved = 0])
            /\ UNCHANGED <<jobs, dbJobs, limiter, urls>>
    /\ UNCHANGED <<items, dbItems, dbImages, reprocs, deletes,
                   nextJob, nextRun, nextReproc, cap, edits, loads, nav, clearing, restore, tvars, pvars, dvars, cvars, gvars>>

\* variant: the catch marks the job failed without the error's message
RasterFailNoMessage(r) ==
    LET rec == runs[r] IN
    /\ ~Busy
    /\ rec.pc = "raster"
    /\ UpdateJob(rec.job, [status |-> "error", msg |-> <<"error", 0, 0>>])
    /\ SetRun(r, IdleRun)
    /\ UNCHANGED <<items, dbItems, dbImages, reprocs, deletes, limiter,
                   nextJob, nextRun, nextReproc, cap, urls, edits, loads, nav, clearing, restore, tvars, pvars, dvars, cvars, gvars>>

\* convertPdfToImages rejects: the catch of processJob marks the job failed.
RasterFail(r) ==
    LET rec == runs[r] IN
    /\ ~Busy
    /\ rec.pc = "raster"
    /\ UpdateJob(rec.job, [status |-> "error", err |-> "raster", msg |-> <<"error", 0, 0>>])
    /\ SetRun(r, IdleRun)
    /\ UNCHANGED <<items, dbItems, dbImages, reprocs, deletes, limiter,
                   nextJob, nextRun, nextReproc, cap, urls, edits, loads, nav, clearing, restore, tvars, pvars, dvars, cvars, gvars>>

\* One savePageImage of Promise.all(filesToProcess.map(savePageImage)); the
\* puts are issued, and served, in index order.  After the last one the run
\* goes on to the processing phase.
SaveImage(r) ==
    LET rec == runs[r]
        idx == rec.saved
        rec2 == [rec EXCEPT !.saved = idx + 1, !.wrote = @ + 1] IN
    /\ ~Busy
    /\ rec.pc = "saving"
    /\ idx < Len(rec.pages)
    /\ dbImages' = PutPageImage(dbImages, rec.job, idx, rec.pages[idx + 1])
    /\ IF idx + 1 = Len(rec.pages)
       THEN BeginProcessing(r, rec.pages, rec2)
       ELSE /\ SetRun(r, rec2)
            /\ UNCHANGED <<jobs, dbJobs, limiter, urls>>
    /\ UNCHANGED <<items, dbItems, reprocs, deletes, nextJob, nextRun, nextReproc,
                   cap, edits, loads, nav, clearing, restore, tvars, pvars, dvars, cvars, gvars>>

\* One savePageImage of the Promise.all rejects (db.put fails): Promise.all
\* rejects, the catch of processJob marks the job failed.  The images put
\* before stay in the store.
SaveImageFail(r) ==
    LET rec == runs[r] IN
    /\ ~Busy
    /\ rec.pc = "saving"
    /\ rec.saved < Len(rec.pages)
    /\ UpdateJob(rec.job, [status |-> "error", err |-> "save", msg |-> <<"error", 0, 0>>])
    /\ SetRun(r, IdleRun)
    /\ UNCHANGED <<items, dbItems, dbImages, reprocs, deletes, limiter,
                   nextJob, nextRun, nextReproc, cap, urls, edits, loads, nav, clearing, restore, tvars, pvars, dvars, cvars, gvars>>

\* variant: the items are ingested as the service returned them, without
\* the job id
TaggedWithoutJob(call, k, j, p) ==
    {[id |-> <<call[1], call[2], m>>, jobId |-> 0, pageNumber |-> p, isVerified |-> FALSE,
      sourceImageUrl |-> call]
       : m \in 1..k}

\* data.items.map(item => ({...item, jobId, sourceImageUrl: imageUrl,
\* pageNumber})); every item of a fresh extraction has isVerified false.  The
\* object URL made for a call is named after the call.
Tagged(call, k, j, p) ==
    {[id |-> <<call[1], call[2], m>>, jobId |-> j, pageNumber |-> p, isVerified |-> FALSE,
      sourceImageUrl |-> call]
       : m \in 1..k}

AllSettled(res) == \A i \in DOMAIN res : res[i] # "pending"

\* variant: a page is numbered by the order in which it finished
PageSuccessNumberedByFinish(r, i, k) ==
    LET rec == runs[r]
        cc == rec.completedCount + 1
        tagged == Tagged(<<r, i>>, k, rec.job, cc)
        res2 == [rec.res EXCEPT ![i + 1] = "ok"] IN
    /\ ~Busy
    /\ rec.pc = "pages"
    /\ <<r, i>> \in limiter.running
    /\ limiter' = LimitRelease(limiter, <<r, i>>)
    /\ items' = items \cup tagged
    /\ dbItems' = dbItems \cup StripAll(tagged)
    /\ UpdateJob(rec.job, [processedPages |-> cc,
                           msg |-> <<"analyzing", cc, Len(rec.pages)>>])
    /\ SetRun(r, [rec EXCEPT !.completedCount = cc, !.res = res2,
                             !.settled = @ + 1, !.got = @ \cup {it.id : it \in tagged},
                             !.pc = IF AllSettled(res2) THEN "finishing" ELSE "pages"])
    /\ UNCHANGED <<dbImages, reprocs, deletes, nextJob, nextRun, nextReproc, cap, urls, edits, loads, nav, clearing, restore, tvars, pvars, dvars, cvars, gvars>>

\* processPickingList(pageImage) resolves with k items.
PageSuccess(r, i, k) ==
    LET rec == runs[r]
        tagged == Tagged(<<r, i>>, k, rec.job, i + 1)
        cc == rec.completedCount + 1
        res2 == [rec.res EXCEPT ![i + 1] = "ok"] IN
    /\ ~Busy
    /\ rec.pc = "pages"
    /\ <<r, i>> \in limiter.running
    /\ limiter' = LimitRelease(limiter, <<r, i>>)
    /\ items' = items \cup tagged
    /\ dbItems' = dbItems \cup StripAll(tagged)
    /\ UpdateJob(rec.job, [processedPages |-> cc,
                           msg |-> <<"analyzing", cc, Len(rec.pages)>>])
    /\ SetRun(r, [rec EXCEPT !.completedCount = cc, !.res = res2,
                             !.settled = @ + 1, !.got = @ \cup {it.id : it \in tagged},
                             !.pc = IF AllSettled(res2) THEN "finishing" ELSE "pages"])
    /\ UNCHANGED <<dbImages, reprocs, deletes, nextJob, nextRun, nextReproc, cap, urls, edits, loads, nav, clearing, restore, tvars, pvars, dvars, cvars, gvars>>

\* variant: the rejection of a page is not caught per page and reaches the
\* catch of processJob
PageFailAborts(r, i) ==
    LET rec == runs[r] IN
    /\ ~Busy
    /\ rec.pc = "pages"
    /\ <<r, i>> \in limiter.running
    /\ limiter' = LimitRelease(limiter, <<r, i>>)
    /\ UpdateJob(rec.job, [status |-> "error", err |-> "page", msg |-> <<"error", 0, 0>>])
    /\ SetRun(r, IdleRun)
    /\ UNCHANGED <<items, dbItems, dbImages, reprocs, deletes,
                   nextJob, nextRun, nextReproc, cap, urls, edits, loads, nav, clearing, restore, tvars, pvars, dvars, cvars, gvars>>

\* processPickingList(pageImage) rejects: the page's catch logs and goes on.
PageFail(r, i) ==
    LET rec == runs[r]
        res2 == [rec.res EXCEPT ![i + 1] = "fail"] IN
    /\ ~Busy
    /\ rec.pc = "pages"
    /\ <<r, i>> \in limiter.running
    /\ limiter' = LimitRelease(limiter, <<r, i>>)
    /\ SetRun(r, [rec EXCEPT !.res = res2, !.settled = @ + 1,
                             !.pc = IF AllSettled(res2) THEN "finishing" ELSE "pages"])
    /\ UNCHANGED <<jobs, dbJobs, items, dbItems, dbImages, reprocs, deletes,
                   nextJob, nextRun, nextReproc, cap, urls, edits, loads, nav, clearing, restore, tvars, pvars, dvars, cvars, gvars>>

\* await Promise.all(pagePromises) resolves: updateStatus({status: 'completed'}).
Complete(r) ==
    LET rec == runs[r] IN
    /\ rec.pc = "finishing"
    /\ UpdateJob(rec.job, [status |-> "completed", processedPages |-> Len(rec.pages),
                           msg |-> <<"done", 0, 0>>])
    /\ SetRun(r, IdleRun)
    /\ UNCHANGED <<items, dbItems, dbImages, reprocs, deletes, limiter,
                   nextJob, nextRun, nextReproc, cap, urls, edits, loads, nav, clearing, restore, tvars, pvars, dvars, cvars, gvars>>

RECURSIVE SeqsOf(_, _)
SeqsOf(S, n) == IF n = 0 THEN {<<>>}
                ELSE {Append(s, x) : s \in SeqsOf(S, n - 1), x \in S}

\* ---- Code.gs: processFile over the Jobs and Items sheets -------------------
\* Every call of processFile from the page is an execution of its own; the
\* executions run side by side and meet in the sheets, one sheet operation
\* at a time.  The page that calls processFile is not part of the sources:
\* every call is taken to carry a job id of its own.

\* convertPdfToImages and blobToBase64: one image per file, PDF or not
GasImages == 1

SetExec(e, rec) == gasExec' = [gasExec EXCEPT ![e] = rec]
GasUnchanged == UNCHANGED <<appVars, tvars, pvars, dvars, cvars, template, columns, callState>>

\* for (i = 1; i < data.length; i++) if (data[i][0] === job.id) { rowIndex =
\* i + 1; break }: the first row with the id, 0 for none (rows are counted
\* here below the header)
FindRow(rows, id) ==
    IF \E i \in DOMAIN rows : rows[i].id = id
    THEN CHOOSE i \in DOMAIN rows : rows[i].id = id /\ \A k \in 1..(i - 1) : rows[k].id # id
    ELSE 0

\* processFile(fileData, fileName, jobId) up to the first sheet operation:
\* saveJob({status: 'processing', totalPages: 1, processedPages: 0})
processFile(e, j) ==
    /\ gasExec[e].pc = "idle"
    /\ \A e2 \in 1..(e - 1) : gasExec[e2].pc # "idle"
    /\ \A e2 \in 1..MaxExecs : gasExec[e2].job # j
    /\ SetExec(e, [IdleExec EXCEPT !.pc = "read", !.job = j, !.n = GasImages,
                                   !.pending = JobRow(j, "processing", 1, 0),
                                   !.next = "page"])
    /\ UNCHANGED <<sheetJobs, sheetItems>>
    /\ GasUnchanged

\* saveJob: sheet.getDataRange().getValues() and the search for the id
saveJobRead(e) ==
    /\ gasExec[e].pc = "read"
    /\ SetExec(e, [gasExec[e] EXCEPT !.pc = "write",
                                     !.rowIndex = FindRow(sheetJobs, gasExec[e].pending.id)])
    /\ UNCHANGED <<sheetJobs, sheetItems>>
    /\ GasUnchanged

\* variant: saveJob appends a row whether or not the id is there
saveJobAppends(e) ==
    /\ gasExec[e].pc = "write"
    /\ sheetJobs' = Append(sheetJobs, gasExec[e].pending)
    /\ SetExec(e, [gasExec[e] EXCEPT !.pc = gasExec[e].next])
    /\ UNCHANGED sheetItems
    /\ GasUnchanged

\* saveJob: rowIndex > 0 ? getRange(rowIndex, 1, 1, 6).setValues([rowData])
\* : appendRow(rowData); then the caller goes on
saveJobWrite(e) ==
    LET rec == gasExec[e] IN
    /\ rec.pc = "write"
    /\ sheetJobs' = IF rec.rowIndex > 0
                    THEN [k \in 1..(IF rec.rowIndex > Len(sheetJobs) THEN rec.rowIndex
                                    ELSE Len(sheetJobs)) |->
                             IF k = rec.rowIndex THEN rec.pending
                             ELSE IF k <= Len(sheetJobs) THEN sheetJobs[k]
                             ELSE JobRow(0, "none", 0, 0)]
                    ELSE Append(sheetJobs, rec.pending)
    /\ SetExec(e, [rec EXCEPT !.pc = rec.next])
    /\ UNCHANGED sheetItems
    /\ GasUnchanged

\* one turn of the loop: processImageWithGemini returns k items, they get
\* the page number and the job id and are pushed to allItems, then
\* saveJob({status: 'processing', processedPages: i + 1})
GasPageOk(e, k) ==
    LET rec == gasExec[e] IN
    /\ rec.pc = "page"
    /\ rec.i < rec.n
    /\ SetExec(e, [rec EXCEPT !.pc = "read", !.i = rec.i + 1, !.allItems = rec.allItems + k,
                              !.pending = JobRow(rec.job, "processing", rec.n, rec.i + 1),
                              !.next = IF rec.i + 1 < rec.n THEN "page" ELSE "items"])
    /\ UNCHANGED <<sheetJobs, sheetItems>>
    /\ GasUnchanged

\* processImageWithGemini throws (no API key, a response code other than
\* 200, no candidate, JSON.parse): catch, saveJob({status: 'error',
\* totalPages: 0, processedPages: 0}), return {success: false}
GasPageFail(e) ==
    LET rec == gasExec[e] IN
    /\ rec.pc = "page"
    /\ rec.i < rec.n
    /\ SetExec(e, [rec EXCEPT !.pc = "read",
                              !.pending = JobRow(rec.job, "error", 0, 0),
                              !.next = "failure"])
    /\ UNCHANGED <<sheetJobs, sheetItems>>
    /\ GasUnchanged

\* saveItems(allItems, jobId): one appended row per item; then
\* saveJob({status: 'completed'}), return {success: true}
saveItems(e) ==
    LET rec == gasExec[e] IN
    /\ rec.pc = "items"
    /\ sheetItems' = sheetItems \o [m \in 1..rec.allItems |-> [jobId |-> rec.job, no |-> m]]
    /\ SetExec(e, [rec EXCEPT !.pc = "read",
                              !.pending = JobRow(rec.job, "completed", rec.n, rec.n),
                              !.next = "success"])
    /\ UNCHANGED sheetJobs
    /\ GasUnchanged

GasInit == InitWith([jobs |-> 0, runs |-> 0, reproc |-> 0])
GasNext ==
    \/ \E e \in 1..MaxExecs : \E j \in 1..MaxExecs : processFile(e, j)
    \/ \E e \in 1..MaxExecs : saveJobRead(e)
    \/ \E e \in 1..MaxExecs : saveJobWrite(e)
    \/ \E e \in 1..MaxExecs : \E k \in 0..MaxItems : GasPageOk(e, k)
    \/ \E e \in 1..MaxExecs : GasPageFail(e)
    \/ \E e \in 1..MaxExecs : saveItems(e)
GasSpec == GasInit /\ [][GasNext]_vars

\* ---- generateColumnDefinitions --------------------------------------------
\* A field definition: its name, its type, and its children.  itemFields and
\* properties are optional; hasItemFields / hasProperties say whether they
\* are there, children is the list of the children's names (an empty list
\* is truthy).  The key of a column is <<name>> or <<name, child>>.
FieldNames == {"a", "boundingBox"}
FieldTypes == {"string", "array", "object"}
ChildLists == {SubSeq(<<"x", "y">>, 1, n) : n \in 0..MaxFields}
FieldDefs == [name : FieldNames, type : FieldTypes, hasItemFields : BOOLEAN,
              hasProperties : BOOLEAN, children : ChildLists]
Templates == {[given |-> TRUE, fields |-> fs] :
                 fs \in UNION {SeqsOf(FieldDefs, n) : n \in 0..MaxFields}}

\* variant: the reserved name is looked at in every branch
ColumnsOfReserved(field) ==
    LET editable == field.name # "boundingBox" IN
    IF field.type = "array" /\ field.hasItemFields
    THEN <<[key |-> <<field.name>>, type |-> "array", editable |-> editable, nested |-> TRUE]>>
    ELSE IF field.type = "object" /\ field.hasProperties
    THEN [k \in 1..Len(field.children) |->
             [key |-> <<field.name, field.children[k]>>, type |-> "string",
              editable |-> editable, nested |-> TRUE]]
    ELSE <<[key |-> <<field.name>>, type |-> field.type, editable |-> editable,
            nested |-> FALSE]>>

\* the body of template.fields.forEach: the columns pushed for one field
ColumnsOf(field) ==
    IF field.type = "array" /\ field.hasItemFields
    THEN <<[key |-> <<field.name>>, type |-> "array", editable |-> TRUE, nested |-> TRUE]>>
    ELSE IF field.type = "object" /\ field.hasProperties
    THEN [k \in 1..Len(field.children) |->
             [key |-> <<field.name, field.children[k]>>, type |-> "string",
              editable |-> TRUE, nested |-> TRUE]]
    ELSE <<[key |-> <<field.name>>, type |-> field.type,
            editable |-> (field.name # "boundingBox"), nested |-> FALSE]>>

RECURSIVE generateColumnDefinitions(_)
generateColumnDefinitions(fields) ==
    IF fields = <<>> THEN <<>>
    ELSE ColumnsOf(Head(fields)) \o generateColumnDefinitions(Tail(fields))

\* the columns of a template are derived (one template in a behaviour)
DeriveColumns(t) ==
    /\ ~template.given
    /\ template' = t
    /\ columns' = generateColumnDefinitions(t.fields)
    /\ UNCHANGED <<callState, gasExec, sheetJobs, sheetItems, appVars, tvars, pvars, dvars, cvars>>

\* ---- processPickingList: the response ------------------------------------
\* A response text is a sequence of characters and of two tokens that stand
\* for longer pieces without braces of their own: "I[" for "items":[ and
\* "0" for a number.  "BT" is the backtick.  A row is written "{", "}".
FenceOpen == <<"BT", "BT", "BT", "j", "s", "o", "n">>
FenceClose == <<"BT", "BT", "BT">>
StartsWith(s, p) == Len(s) >= Len(p) /\ SubSeq(s, 1, Len(p)) = p
EndsWith(s, p) == Len(s) >= Len(p) /\ SubSeq(s, Len(s) - Len(p) + 1, Len(s)) = p

\* indexOf, lastIndexOf (positions from 1; 0: not found)
IndexOf(s, c) == IF \E i \in 1..Len(s) : s[i] = c
                 THEN CHOOSE i \in 1..Len(s) : s[i] = c /\ \A k \in 1..(i - 1) : s[k] # c
                 ELSE 0
LastIndexOf(s, c) == IF \E i \in 1..Len(s) : s[i] = c
                     THEN CHOOSE i \in 1..Len(s) : s[i] = c /\ \A k \in (i + 1)..Len(s) : s[k] # c
                     ELSE 0

\* The fence marks are removed: replace(/^<fence>json\s*/, "") and
\* replace(/\s*<fence>$/, ""), <fence> being three backticks; when both '{' and
\* '}' occur, substring(jsonStart, jsonEnd + 1), which swaps its arguments
\* when the first is the larger
cleanResponseText(text) ==
    IF text = <<>> THEN <<>>
    ELSE LET opened == IF StartsWith(text, FenceOpen)
                       THEN TrimStart(SubSeq(text, Len(FenceOpen) + 1, Len(text)))
                       ELSE text
             cleaned == IF EndsWith(opened, FenceClose)
                        THEN TrimEnd(SubSeq(opened, 1, Len(opened) - Len(FenceClose)))
                        ELSE opened
             jsonStart == IndexOf(cleaned, "{")
             jsonEnd == LastIndexOf(cleaned, "}") IN
         IF jsonStart # 0 /\ jsonEnd # 0
         THEN IF jsonStart <= jsonEnd THEN SubSeq(cleaned, jsonStart, jsonEnd)
              ELSE SubSeq(cleaned, jsonEnd + 1, jsonStart - 1)
         ELSE cleaned

\* JSON.parse(text) and rawResult.items.map(...): white space between the
\* tokens is skipped; an object with an items array of n rows gives n items;
\* an object without items and a number parse but have no items to map
\* (TypeError); anything else is a SyntaxError.
JsonWhiteSpace == {" ", "TAB", "LF"}
NotJsonWhiteSpace(c) == c \notin JsonWhiteSpace
ParseItems(text) ==
    LET solid == SelectSeq(text, NotJsonWhiteSpace) IN
    CASE solid = <<"{", "I[", "]", "}">> -> [ok |-> TRUE, n |-> 0]
      [] solid = <<"{", "I[", "{", "}", "]", "}">> -> [ok |-> TRUE, n |-> 1]
      [] OTHER -> [ok |-> FALSE, n |-> 0]

\* variant: a response that cannot be used counts as a page without rows
processPickingListLenient(text) ==
    LET cleaned == cleanResponseText(text) IN
    IF cleaned = <<>> THEN [ok |-> TRUE, n |-> 0]
    ELSE [ParseItems(cleaned) EXCEPT !.ok = TRUE]

\* text = cleanResponseText(response.text); if (!text) throw; JSON.parse;
\* items.map(mapRawItemToOCRItem); catch: throw error
processPickingList(text) ==
    LET cleaned == cleanResponseText(text) IN
    IF cleaned = <<>> THEN [ok |-> FALSE, n |-> 0]
    ELSE ParseItems(cleaned)

Fenced(body) == FenceOpen \o <<"LF">> \o body \o <<"LF">> \o FenceClose
OneRow == <<"{", "I[", "{", "}", "]", "}">>
NoRows == <<"{", "I[", "]", "}">>

\* the responses of the model: every short text of braces, other characters
\* and fence marks, and longer ones of each kind
ReplyChars == {"{", "}", "x", "BT"}
Responses ==
    UNION {SeqsOf(ReplyChars, n) : n \in 0..MaxReplyLen}
    \cup {OneRow, NoRows, Fenced(OneRow), Fenced(NoRows), FenceClose \o OneRow \o FenceClose,
          <<"x">> \o OneRow \o <<"x", "LF">>, Fenced(<<"x">>), Fenced(<<>>), <<"0">>,
          <<"{", "x", "}">>, <<"{", "I[", "]">>, <<"I[", "]", "}">>, <<"LF">>}

\* ai.models.generateContent resolves for the call of page i of run r
Reply(r, i, text) ==
    /\ ~Busy
    /\ <<r, i>> \in limiter.running
    /\ \A rep \in replies : rep.call # <<r, i>>
    /\ replies' = replies \cup {[call |-> <<r, i>>, text |-> text]}
    /\ UNCHANGED <<appVars, tvars, pvars, dvars, gvars>>

\* processPickingList settles on its response, and the page with it
PageSettle(r, i) ==
    \E rep \in replies :
        /\ rep.call = <<r, i>>
        /\ LET out == processPickingList(rep.text) IN
           IF out.ok THEN PageSuccess(r, i, out.n) ELSE PageFail(r, i)

FreshPipeline ==
    \/ \E k \in 1..cap.jobs : \E fs \in SeqsOf(Files, k) : Enqueue(fs)
    \/ \E r \in RunIds : RunStart(r)
    \/ \E r \in RunIds : CheckFirstPage(r)
    \/ \E r \in RunIds : RasterOk(r)
    \/ \E r \in RunIds : RasterFail(r)
    \/ \E r \in RunIds : SaveImage(r)
    \/ \E r \in RunIds : \E i \in 0..(MaxPages - 1) : \E k \in 0..MaxItems : PageSuccess(r, i, k)
    \/ \E r \in RunIds : \E i \in 0..(MaxPages - 1) : PageFail(r, i)
    \/ \E r \in RunIds : Complete(r)

\* ---- JobStatus: which buttons a job row offers ----------------------------
isProcessing(job) == job.status \in {"processing", "converting", "queued"}

\* the retry button: !isProcessing, in the branch that shows the buttons
RetryOffered(job) == job # NoJob /\ ~isProcessing(job)

\* the delete button: every row that does not show the progress bar
DeleteOffered(job) == job # NoJob /\ ~(isProcessing(job) /\ job.totalPages > 0)

\* ---- handleRetryJob ------------------------------------------------------
\* const job = jobs.find(...); await storageService.deleteItemsByJobId(jobId)
\* variant: the retry deletes the page images of the job with its items
RetryClickPurgesImages(j) ==
    /\ ~Busy
    /\ RetryOffered(jobs[j])
    /\ nextRun <= cap.runs
    /\ dbItems' = dbItems \ JobItems(dbItems, j)
    /\ dbImages' = {im \in dbImages : im.job # j}
    /\ SetRun(nextRun, [IdleRun EXCEPT !.pc = "retry", !.job = j, !.snap = jobs[j],
                                       !.file = jobs[j].file,
                                       !.pre = {it.id : it \in JobItems(items \cup dbItems, j)}])
    /\ nextRun' = nextRun + 1
    /\ ToDashboard
    /\ UNCHANGED <<jobs, dbJobs, items, reprocs, deletes, limiter,
                   nextJob, nextReproc, cap, urls, edits, loads, clearing, restore, tvars, pvars, dvars, cvars, gvars>>

RetryClick(j) ==
    /\ ~Busy
    /\ RetryOffered(jobs[j])
    /\ nextRun <= cap.runs
    /\ dbItems' = dbItems \ JobItems(dbItems, j)
    /\ SetRun(nextRun, [IdleRun EXCEPT !.pc = "retry", !.job = j, !.snap = jobs[j],
                                       !.file = jobs[j].file,
                                       !.pre = {it.id : it \in JobItems(items \cup dbItems, j)}])
    /\ nextRun' = nextRun + 1
    /\ ToDashboard
    /\ UNCHANGED <<jobs, dbJobs, items, dbImages, reprocs, deletes, limiter,
                   nextJob, nextReproc, cap, urls, edits, loads, clearing, restore, tvars, pvars, dvars, cvars, gvars>>

\* resetJob = { ...job, status: 'queued', processedPages: 0, ... }
ResetJob(job) == Merge(job, [status |-> "queued", processedPages |-> 0,
                             msg |-> <<"retrywait", 0, 0>>, err |-> "none"])

\* variant: the retry empties the working set
RetryResetDropsAll(r) ==
    LET rec == runs[r] IN
    /\ ~Busy
    /\ rec.pc = "retry"
    /\ items' = {}
    /\ urls' = urls \ UrlsOf(items)
    /\ UpdateJob(rec.job, ResetJob(rec.snap))
    /\ SetRun(r, [rec EXCEPT !.pc = "start"])
    /\ UNCHANGED <<dbItems, dbImages, reprocs, deletes, limiter,
                   nextJob, nextRun, nextReproc, cap, edits, loads, nav, clearing, restore, tvars, pvars, dvars, cvars, gvars>>

\* after the await: drop the job's items from the state and revoke their
\* object URLs, updateJob(jobId, resetJob), processJob(resetJob)
RetryReset(r) ==
    LET rec == runs[r] IN
    /\ ~Busy
    /\ rec.pc = "retry"
    /\ items' = items \ JobItems(items, rec.job)
    /\ urls' = urls \ UrlsOf(JobItems(items, rec.job))
    /\ UpdateJob(rec.job, ResetJob(rec.snap))
    /\ SetRun(r, [rec EXCEPT !.pc = "start"])
    /\ UNCHANGED <<dbItems, dbImages, reprocs, deletes, limiter,
                   nextJob, nextRun, nextReproc, cap, edits, loads, nav, clearing, restore, tvars, pvars, dvars, cvars, gvars>>

\* ---- handleDeleteJob -----------------------------------------------------
\* storageService.deleteJob(jobId): the job record is deleted, then the job's
\* items in a transaction tx over items and page_images.  The image keys are
\* read with db.getAllKeys, a transaction of its own, which is awaited: when
\* it returns tx has committed, so tx.objectStore('page_images') throws for
\* the first key of the job.  With no image of the job stored nothing is
\* asked of tx any more and deleteJob returns; otherwise it rejects, the
\* images stay, and handleDeleteJob ends at its await.
DeleteClick(j) ==
    /\ ~Busy
    /\ DeleteOffered(jobs[j])
    /\ dbJobs' = [dbJobs EXCEPT ![j] = NoJob]
    /\ dbItems' = dbItems \ JobItems(dbItems, j)
    /\ deletes' = IF \E im \in dbImages : im.job = j THEN deletes ELSE deletes \cup {j}
    /\ ToDashboard
    /\ UNCHANGED <<jobs, items, dbImages, runs, reprocs, limiter,
                   nextJob, nextRun, nextReproc, cap, urls, edits, loads, clearing, restore, tvars, pvars, dvars, cvars, gvars>>

\* after the await: remove the job and its items from the state, revoking
\* the object URLs of the removed items
DeleteFinish(j) ==
    /\ ~Busy
    /\ j \in deletes
    /\ jobs' = [jobs EXCEPT ![j] = NoJob]
    /\ items' = items \ JobItems(items, j)
    /\ urls' = urls \ UrlsOf(JobItems(items, j))
    /\ deletes' = deletes \ {j}
    /\ currentPageNumber' = IF selectedJobId = j THEN 0 ELSE currentPageNumber
    /\ UNCHANGED <<dbJobs, dbItems, dbImages, runs, reprocs, limiter,
                   nextJob, nextRun, nextReproc, cap, edits, loads, selectedJobId, clearing, restore, tvars, pvars, dvars, cvars, gvars>>

\* ---- clearResults --------------------------------------------------------
\* The button is shown while there are items.  The object URLs of the items
\* are revoked, then await storageService.clearAll(), which clears the three
\* stores one after the other, each clear awaited: `clearing` is the number
\* of stores cleared so far by the pending call.
ClearClick ==
    /\ ~Busy
    /\ items # {}
    /\ clearing = 0
    /\ urls' = urls \ UrlsOf(items)
    /\ dbJobs' = [j \in JobIds |-> NoJob]
    /\ clearing' = 1
    /\ ToDashboard
    /\ UNCHANGED <<jobs, items, dbItems, dbImages, runs, reprocs, deletes, limiter,
                   nextJob, nextRun, nextReproc, cap, edits, loads, restore, tvars, pvars, dvars, cvars, gvars>>

\* await db.clear('items'); await db.clear('page_images')
ClearStore ==
    /\ ~Busy
    /\ clearing \in {1, 2}
    /\ dbItems' = IF clearing = 1 THEN {} ELSE dbItems
    /\ dbImages' = IF clearing = 2 THEN {} ELSE dbImages
    /\ clearing' = clearing + 1
    /\ UNCHANGED <<jobs, items, dbJobs, runs, reprocs, deletes, limiter,
                   nextJob, nextRun, nextReproc, cap, urls, edits, loads, nav, restore, tvars, pvars, dvars, cvars, gvars>>

\* after the await: both lists are emptied and the dashboard is shown
ClearFinish ==
    /\ ~Busy
    /\ clearing = 3
    /\ items' = {}
    /\ jobs' = [j \in JobIds |-> NoJob]
    /\ clearing' = 0
    /\ ToDashboard
    /\ UNCHANGED <<dbJobs, dbItems, dbImages, runs, reprocs, deletes, limiter,
                   nextJob, nextRun, nextReproc, cap, urls, edits, loads, restore, tvars, pvars, dvars, cvars, gvars>>

\* ---- VerificationView ----------------------------------------------------
\* The job of the row is selected, which opens the verification view, and
\* the row is clicked: currentPageNumber becomes the page of the row.
handleRowClick(it) ==
    /\ it \in items
    /\ jobs[it.jobId] # NoJob
    /\ selectedJobId' = it.jobId
    /\ currentPageNumber' = it.pageNumber
    /\ UNCHANGED <<jobs, items, dbJobs, dbItems, dbImages, runs, reprocs, deletes,
                   limiter, nextJob, nextRun, nextReproc, cap, urls, edits, loads, clearing, restore, tvars, pvars, dvars, cvars, gvars>>

\* ---- handleReprocessPage -------------------------------------------------
SetReproc(q, rec) == reprocs' = [reprocs EXCEPT ![q] = rec]

\* The button of the verification view reprocesses currentPageNumber of the
\* selected job (handleReprocessClick), whether or not the page still has
\* items.  itemsToRemove = resultItems.filter(job and page);
\* await storageService.deleteItemsByIds(itemIdsToRemove)
ReprocClick(j, p) ==
    LET ids == {it.id : it \in {x \in items : x.jobId = j /\ x.pageNumber = p}} IN
    /\ ~Busy
    /\ jobs[j] # NoJob
    /\ selectedJobId = j
    /\ currentPageNumber = p
    /\ nextReproc <= cap.reproc
    /\ dbItems' = {it \in dbItems : it.id \notin ids}
    /\ SetReproc(nextReproc, [pc |-> "purge", job |-> j, page |-> p, ids |-> ids])
    /\ nextReproc' = nextReproc + 1
    /\ UNCHANGED <<jobs, dbJobs, items, dbImages, runs, deletes, limiter,
                   nextJob, nextRun, cap, urls, edits, loads, nav, clearing, restore, tvars, pvars, dvars, cvars, gvars>>

\* setResultItems(prev => prev.filter(...)); updateJob(progressMessage);
\* then await storageService.getPageImage(jobId, pageIndex)
ReprocPurge(q) ==
    LET rec == reprocs[q] IN
    /\ ~Busy
    /\ rec.pc = "purge"
    /\ items' = {it \in items : it.id \notin rec.ids}
    /\ UpdateJob(rec.job, [msg |-> <<"reprocessing", rec.page, 0>>])
    /\ SetReproc(q, [rec EXCEPT !.pc = "load"])
    /\ UNCHANGED <<dbItems, dbImages, runs, deletes, limiter,
                   nextJob, nextRun, nextReproc, cap, urls, edits, loads, nav, clearing, restore, tvars, pvars, dvars, cvars, gvars>>

\* the image is read: absent -> throw -> catch; present -> createObjectURL,
\* processPickingList
\* variant: the missing image is reported as a failure of the job
ReprocLoadFailsJob(q) ==
    LET rec == reprocs[q] IN
    /\ ~Busy
    /\ rec.pc = "load"
    /\ IF GetPageImage(rec.job, rec.page - 1) = NoImg
       THEN /\ UpdateJob(rec.job, [status |-> "error",
                                   msg |-> <<"reprocfailed: Page image not found", rec.page, 0>>])
            /\ SetReproc(q, IdleReproc)
            /\ UNCHANGED <<limiter, urls>>
       ELSE /\ urls' = urls \cup {<<0, q>>}
            /\ limiter' = LimitSubmit(limiter, <<0, q>>)
            /\ SetReproc(q, [rec EXCEPT !.pc = "call"])
            /\ UNCHANGED <<jobs, dbJobs>>
    /\ UNCHANGED <<items, dbItems, dbImages, runs, deletes,
                   nextJob, nextRun, nextReproc, cap, edits, loads, nav, clearing, restore, tvars, pvars, dvars, cvars, gvars>>

ReprocLoad(q) ==
    LET rec == reprocs[q] IN
    /\ ~Busy
    /\ rec.pc = "load"
    /\ IF GetPageImage(rec.job, rec.page - 1) = NoImg
       THEN /\ UpdateJob(rec.job, [msg |-> <<"reprocfailed: Page image not found", rec.page, 0>>])
            /\ SetReproc(q, IdleReproc)
            /\ UNCHANGED <<limiter, urls>>
       ELSE /\ urls' = urls \cup {<<0, q>>}
            /\ limiter' = LimitSubmit(limiter, <<0, q>>)
            /\ SetReproc(q, [rec EXCEPT !.pc = "call"])
            /\ UNCHANGED <<jobs, dbJobs>>
    /\ UNCHANGED <<items, dbItems, dbImages, runs, deletes,
                   nextJob, nextRun, nextReproc, cap, edits, loads, nav, clearing, restore, tvars, pvars, dvars, cvars, gvars>>

ReprocSuccess(q, k) ==
    LET rec == reprocs[q]
        tagged == Tagged(<<0, q>>, k, rec.job, rec.page) IN
    /\ ~Busy
    /\ rec.pc = "call"
    /\ <<0, q>> \in limiter.running
    /\ limiter' = LimitRelease(limiter, <<0, q>>)
    /\ items' = items \cup tagged
    /\ dbItems' = dbItems \cup StripAll(tagged)
    /\ UpdateJob(rec.job, [msg |-> <<"done", 0, 0>>])
    /\ SetReproc(q, IdleReproc)
    /\ UNCHANGED <<dbImages, runs, deletes, nextJob, nextRun, nextReproc, cap, urls, edits, loads, nav, clearing, restore, tvars, pvars, dvars, cvars, gvars>>

ReprocFail(q) ==
    LET rec == reprocs[q] IN
    /\ ~Busy
    /\ rec.pc = "call"
    /\ <<0, q>> \in limiter.running
    /\ limiter' = LimitRelease(limiter, <<0, q>>)
    /\ UpdateJob(rec.job, [msg |-> <<"reprocfailed", rec.page, 0>>])
    /\ SetReproc(q, IdleReproc)
    /\ UNCHANGED <<items, dbItems, dbImages, runs, deletes,
                   nextJob, nextRun, nextReproc, cap, urls, edits, loads, nav, clearing, restore, tvars, pvars, dvars, cvars, gvars>>

\* ---- mapRawItemToOCRItem -------------------------------------------------
\* A raw row of the response: dists is the list of the "shop:qty" parts of
\* the distribution string, rTotal the reported total.  The text of a
\* quantity or total is a number (k = "num", its value v), no number
\* (k = "nan") or empty (k = "none").
NumText == {[k |-> "num", v |-> n] : n \in 0..MaxQty} \cup {[k |-> "nan", v |-> 0]}
RawQty == NumText \cup {[k |-> "none", v |-> 0]}
RawParts == [shop : {"", "A"}, qty : RawQty]
RawItems == [dists : UNION {SeqsOf(RawParts, n) : n \in 0..MaxDists},
             rTotal : NumText]

\* parseInt(text) || 0, Number(text) || 0
NumberOr0(t) == IF t.k = "num" THEN t.v ELSE 0

RECURSIVE ParseDists(_)
ParseDists(parts) ==
    IF parts = <<>> THEN <<>>
    ELSE LET part == Head(parts) IN
         IF part.shop # "" /\ part.qty.k # "none"
         THEN <<[shopCode |-> part.shop, quantity |-> NumberOr0(part.qty)]>>
                 \o ParseDists(Tail(parts))
         ELSE ParseDists(Tail(parts))

\* distributions.reduce((sum, d) => sum + d.quantity, 0)
RECURSIVE SumQty(_)
SumQty(ds) == IF ds = <<>> THEN 0 ELSE Head(ds).quantity + SumQty(Tail(ds))

mapRawItemToOCRItem(raw, id) ==
    LET distributions == ParseDists(raw.dists)
        reportedTotal == NumberOr0(raw.rTotal)
        calculatedTotal == SumQty(distributions) IN
    [id |-> id, reportedTotal |-> reportedTotal, distributions |-> distributions,
     calculatedTotal |-> calculatedTotal, isCorrect |-> (calculatedTotal = reportedTotal),
     isVerified |-> FALSE]

\* processPickingList resolves with one row, which is tagged and ingested
\* (the job and its page are left out here).
IngestRow(raw) ==
    LET item == mapRawItemToOCRItem(raw, <<1, 0, 1>>)
                   @@ [jobId |-> 1, pageNumber |-> 1, sourceImageUrl |-> <<1, 0>>] IN
    /\ items = {}
    /\ items' = {item}
    /\ dbItems' = StripAll({item})
    /\ urls' = urls \cup {<<1, 0>>}
    /\ UNCHANGED <<jobs, dbJobs, dbImages, runs, reprocs, deletes, limiter,
                   nextJob, nextRun, nextReproc, cap, edits, loads, nav, clearing, restore, tvars, pvars, dvars, cvars, gvars>>

\* ---- mapRawItemToOCRItem on the text of a row ----------------------------
RECURSIVE DigitPrefix(_)
DigitPrefix(s) == IF s # <<>> /\ Head(s) \in Digits
                  THEN <<Head(s)>> \o DigitPrefix(Tail(s)) ELSE <<>>
RECURSIVE ValueOf(_)
ValueOf(ds) == IF ds = <<>> THEN 0
               ELSE 10 * ValueOf(SubSeq(ds, 1, Len(ds) - 1)) + DigitVal(ds[Len(ds)])

\* parseInt(s): leading white space is skipped, then a sign, then the
\* longest run of decimal digits is read; NaN when there is none.  (The
\* texts of the model have no "0x" prefix.)
parseInt(s) ==
    LET t == TrimStart(s)
        signed == t # <<>> /\ Head(t) \in {"-", "+"}
        ds == DigitPrefix(IF signed THEN Tail(t) ELSE t) IN
    IF ds = <<>> THEN [k |-> "nan", v |-> 0]
    ELSE [k |-> "num", v |-> IF signed /\ Head(t) = "-" THEN 0 - ValueOf(ds) ELSE ValueOf(ds)]

\* variant: a part is kept whenever it has a shop
RECURSIVE PushPartsKeepsMalformed(_)
PushPartsKeepsMalformed(parts) ==
    IF parts = <<>> THEN <<>>
    ELSE LET fields == Split(Head(parts), ":")
             shop == fields[1]
             qty == IF Len(fields) >= 2 THEN fields[2] ELSE <<>> IN
         (IF shop # <<>>
          THEN <<[shopCode |-> Trim(shop), quantity |-> NumberOr0(parseInt(Trim(qty)))]>>
          ELSE <<>>) \o PushPartsKeepsMalformed(Tail(parts))

\* for (const part of parts) { const [shop, qty] = part.split(':');
\*   if (shop && qty) distributions.push(...) }
\* qty is undefined when the part has no ':'; undefined and "" are both falsy.
RECURSIVE PushParts(_)
PushParts(parts) ==
    IF parts = <<>> THEN <<>>
    ELSE LET fields == Split(Head(parts), ":")
             shop == fields[1]
             qty == IF Len(fields) >= 2 THEN fields[2] ELSE <<>> IN
         (IF shop # <<>> /\ qty # <<>>
          THEN <<[shopCode |-> Trim(shop), quantity |-> NumberOr0(parseInt(Trim(qty)))]>>
          ELSE <<>>) \o PushParts(Tail(parts))

\* if (item.dists && typeof item.dists === 'string') { parts = split('|') ... }
DistributionsOf(dists) == IF dists = <<>> THEN <<>> ELSE PushParts(Split(dists, "|"))

\* replace(/[\s\u3000\t\r\n\u00A0]+/g, ' ')
RECURSIVE CollapseWhiteSpace(_)
CollapseWhiteSpace(s) ==
    IF s = <<>> THEN <<>>
    ELSE IF Head(s) \in WhiteSpace THEN <<" ">> \o CollapseWhiteSpace(TrimStart(s))
    ELSE <<Head(s)>> \o CollapseWhiteSpace(Tail(s))

\* variant: only the ASCII space separates
VendorCodeAsciiOnly(vCode) ==
    IF vCode = <<>> THEN <<>>
    ELSE LET parts == Split(Trim(vCode), " ") IN parts[Len(parts)]

\* let vendorProductCode = item.vCode || ""; if (vendorProductCode) { ... }
VendorCodeOf(vCode) ==
    IF vCode = <<>> THEN <<>>
    ELSE LET normalized == Trim(CollapseWhiteSpace(vCode))
             parts == Split(normalized, " ") IN
         parts[Len(parts)]

\* the rows of the model: every short distribution string, every short vendor
\* code, and the strings the documentation names
DistChars == {"A", "3", ":", "|", " ", "b"}
CodeChars == {"0", "D", " ", "FW", "TAB"}
DistExamples == {<<"A", ":", "3", "|", "B", ":", "2">>,
                 <<"A", ":", "3", "|", "b", "a", "d", "|", "B", ":", "2">>,
                 <<"A", ":", "-", "3", "|", "B", ":", " ", "2", "1", "b">>,
                 <<"A", ":", "3", ":", "2", "|", " ", ":", "2">>}
CodeExamples == {<<"0", "0", "0", "0", " ", "0", "0", " ", "9", "9", "5", "6", "6", "8", "D">>,
                 <<"0", "0", "0", "0", "FW", "0", "0", "FW", "9", "9", "5", "6", "6", "8", "D">>,
                 <<"0", "0", "NBSP", "LF", "9", "9", "5", "6", "6", "8", "D", "TAB">>,
                 <<"9", "9", "5", "6", "6", "8", "D">>}
DistTexts == UNION {SeqsOf(DistChars, n) : n \in 0..MaxText} \cup DistExamples
CodeTexts == UNION {SeqsOf(CodeChars, n) : n \in 0..MaxText} \cup CodeExamples
RawRows == {[given |-> TRUE, dists |-> d, vCode |-> <<>>] : d \in DistTexts}
           \cup {[given |-> TRUE, dists |-> <<>>, vCode |-> c] : c \in CodeTexts}
           \cup {[given |-> TRUE, dists |-> d, vCode |-> c] : d \in DistExamples, c \in CodeExamples}

\* mapRawItemToOCRItem(item): the distributions, their total and the vendor
\* code of the item it returns (one row in a behaviour)
MapRow(raw) ==
    LET distributions == DistributionsOf(raw.dists) IN
    /\ ~rawRow.given
    /\ rawRow' = raw
    /\ mapped' = [distributions |-> distributions,
                  calculatedTotal |-> SumQty(distributions),
                  vendorProductCode |-> VendorCodeOf(raw.vCode),
                  isVerified |-> FALSE]
    /\ UNCHANGED <<appVars, tvars, dvars, cvars, gvars>>

\* ---- handleItemUpdate ---------------------------------------------------
\* variant: the totals are recomputed only when the distributions change
handleItemUpdateDistOnly(item, updates) ==
    LET newItem == Merge(item, updates) IN
    IF "distributions" \in DOMAIN updates
    THEN LET total == SumQty(newItem.distributions) IN
         [newItem EXCEPT !.calculatedTotal = total,
                         !.isCorrect = (total = newItem.reportedTotal)]
    ELSE newItem

\* newItem = { ...item, ...updates }; if the update carries distributions or
\* a reportedTotal, calculatedTotal and isCorrect are computed again.
handleItemUpdate(item, updates) ==
    LET newItem == Merge(item, updates) IN
    IF "distributions" \in DOMAIN updates \/ "reportedTotal" \in DOMAIN updates
    THEN LET total == SumQty(newItem.distributions) IN
         [newItem EXCEPT !.calculatedTotal = total,
                         !.isCorrect = (total = newItem.reportedTotal)]
    ELSE newItem

\* setResultItems(prev => prev.map(...)); saveItem puts the new item under
\* its id.
ApplyUpdate(it, updates) ==
    LET new == handleItemUpdate(it, updates) IN
    /\ ~Busy
    /\ it \in items
    /\ items' = (items \ {it}) \cup {new}
    /\ dbItems' = {x \in dbItems : x.id # it.id} \cup {Strip(new)}
    /\ UNCHANGED <<jobs, dbJobs, dbImages, runs, reprocs, deletes, limiter,
                   nextJob, nextRun, nextReproc, cap, urls, loads, nav, clearing, restore, tvars, pvars, dvars, cvars, gvars>>

\* the verification toggle of a row:
\* onItemUpdate(item.id, { isVerified: !item.isVerified })
EditItem(it) ==
    /\ ApplyUpdate(it, [isVerified |-> ~it.isVerified])
    /\ UNCHANGED edits

\* handleInputChange(id, 'reportedTotal', parseInt(value) || 0)
EditReportedTotal(it, text) ==
    /\ edits < MaxEdits
    /\ edits' = edits + 1
    /\ ApplyUpdate(it, [reportedTotal |-> NumberOr0(text)])

\* handleDistributionChange(id, item, distIndex, parseInt(value) || 0)
EditDistribution(it, distIndex, text) ==
    /\ edits < MaxEdits
    /\ edits' = edits + 1
    /\ distIndex \in DOMAIN it.distributions
    /\ ApplyUpdate(it, [distributions |->
                           [it.distributions EXCEPT ![distIndex] =
                               [@ EXCEPT !.quantity = NumberOr0(text)]]])

\* ---- reload: the page is loaded again, restoreData ------------------------
\* storageService.loadAllData, called for the n-th time: every stored item is
\* returned, with an object URL of its own if it has a job id and a page
\* number and the image of that page is stored.
HasStoredImage(it) ==
    /\ it.jobId # 0
    /\ "pageNumber" \in DOMAIN it
    /\ GetPageImage(it.jobId, it.pageNumber - 1) # NoImg

LoadedItem(it, n) == IF HasStoredImage(it) THEN WithUrl(it, <<n>> \o it.id) ELSE it

\* variant: an item whose page image is lost is not returned
LoadAllDataSkipsLost(n) ==
    [jobs |-> dbJobs, items |-> {LoadedItem(it, n) : it \in {x \in dbItems : HasStoredImage(x)}}]

LoadAllData(n) == [jobs |-> dbJobs, items |-> {LoadedItem(it, n) : it \in dbItems}]

\* Everything in memory is gone (pending handlers, calls in flight, the
\* limiter, the object URLs of the old document); jobs and items are read
\* back from the stores.
Reload ==
    LET data == LoadAllData(loads + 1) IN
    /\ ~Busy
    /\ loads < MaxLoads
    /\ loads' = loads + 1
    /\ jobs' = data.jobs
    /\ items' = data.items
    /\ urls' = UrlsOf(data.items)
    /\ runs' = [r \in RunIds |-> IdleRun]
    /\ reprocs' = [q \in ReprocIds |-> IdleReproc]
    /\ deletes' = {}
    /\ limiter' = EmptyLimiter
    /\ ToDashboard
    /\ clearing' = 0
    /\ restore' = "done"
    /\ UNCHANGED <<dbJobs, dbItems, dbImages, nextJob, nextRun, nextReproc, cap, edits, tvars, pvars, dvars, cvars, gvars>>

\* ---- restoreData, step by step -------------------------------------------
\* The page is loaded: a new document, whose App starts with empty lists and
\* isRestoring true (the spinner is all that is rendered) and calls
\* restoreData.
PageLoad ==
    /\ ~Busy
    /\ loads < MaxLoads
    /\ loads' = loads + 1
    /\ jobs' = [j \in JobIds |-> NoJob]
    /\ items' = {}
    /\ urls' = {}
    /\ runs' = [r \in RunIds |-> IdleRun]
    /\ reprocs' = [q \in ReprocIds |-> IdleReproc]
    /\ deletes' = {}
    /\ limiter' = EmptyLimiter
    /\ ToDashboard
    /\ clearing' = 0
    /\ restore' = "pending"
    /\ UNCHANGED <<dbJobs, dbItems, dbImages, nextJob, nextRun, nextReproc, cap, edits, tvars, pvars, dvars, cvars, gvars>>

\* loadAllData resolves: setJobs, setResultItems, finally setIsRestoring(false)
RestoreOk ==
    LET data == LoadAllData(loads) IN
    /\ restore = "pending"
    /\ jobs' = data.jobs
    /\ items' = data.items
    /\ urls' = UrlsOf(data.items)
    /\ restore' = "done"
    /\ UNCHANGED <<dbJobs, dbItems, dbImages, runs, reprocs, deletes, limiter,
                   nextJob, nextRun, nextReproc, cap, edits, loads, nav, clearing, tvars, pvars, dvars, cvars, gvars>>

\* variant: the jobs that were read are shown although reading the items
\* failed
RestoreFailKeepsJobs ==
    /\ restore = "pending"
    /\ jobs' = dbJobs
    /\ \E made \in SUBSET UrlsOf(LoadAllData(loads).items) : urls' = made
    /\ restore' = "failed"
    /\ UNCHANGED <<items, dbJobs, dbItems, dbImages, runs, reprocs, deletes, limiter,
                   nextJob, nextRun, nextReproc, cap, edits, loads, nav, clearing, tvars, pvars, dvars, cvars, gvars>>

\* loadAllData rejects (getDB, a getAll or the get of an image fails): the
\* catch logs, finally setIsRestoring(false).  Both lists keep their initial
\* value; the object URLs made before the failing read stay allocated.
RestoreFail ==
    /\ restore = "pending"
    /\ \E made \in SUBSET UrlsOf(LoadAllData(loads).items) : urls' = made
    /\ restore' = "failed"
    /\ UNCHANGED <<jobs, items, dbJobs, dbItems, dbImages, runs, reprocs, deletes, limiter,
                   nextJob, nextRun, nextReproc, cap, edits, loads, nav, clearing, tvars, pvars, dvars, cvars, gvars>>

Pipeline == FreshPipeline \/ \E r \in RunIds : ResumeRead(r)

RetryOps ==
    \/ \E j \in JobIds : RetryClick(j)
    \/ \E r \in RunIds : RetryReset(r)

DeleteOps ==
    \/ \E j \in JobIds : DeleteClick(j)
    \/ \E j \in JobIds : DeleteFinish(j)

ReprocOps ==
    \/ \E it \in items : handleRowClick(it)
    \/ \E j \in JobIds : \E p \in 1..MaxPages : ReprocClick(j, p)
    \/ \E q \in ReprocIds : ReprocPurge(q)
    \/ \E q \in ReprocIds : ReprocLoad(q)
    \/ \E q \in ReprocIds : \E k \in 0..MaxItems : ReprocSuccess(q, k)
    \/ \E q \in ReprocIds : ReprocFail(q)

ClearOps == ClearClick \/ ClearStore \/ ClearFinish

EditOps == \E it \in items : EditItem(it)

\* ---- specifications ------------------------------------------------------
\* One job through its whole life: enqueue, the pipeline, retry and delete.
Init == InitWith([jobs |-> 1, runs |-> MaxRuns, reproc |-> 0])
Next == Pipeline \/ RetryOps \/ DeleteOps
Spec == Init /\ [][Next]_vars

\* Two jobs side by side: the second is run once, the first is also run
\* again, deleted, and has a page reprocessed.
JobsInit == InitWith([jobs |-> MaxJobs, runs |-> MaxJobs + 1, reproc |-> MaxReproc])
\* a PDF of MaxPages pages and an image, dropped together
JobsFiles == <<[pdf |-> TRUE, n |-> MaxPages], [pdf |-> FALSE, n |-> 1]>>
JobsNext ==
    \/ Enqueue(JobsFiles)
    \/ \E r \in RunIds : RunStart(r)
    \/ \E r \in RunIds : CheckFirstPage(r)
    \/ \E r \in RunIds : RasterOk(r)
    \/ \E r \in RunIds : RasterFail(r)
    \/ \E r \in RunIds : SaveImage(r)
    \/ \E r \in RunIds : \E i \in 0..(MaxPages - 1) : \E k \in 0..MaxItems : PageSuccess(r, i, k)
    \/ \E r \in RunIds : \E i \in 0..(MaxPages - 1) : PageFail(r, i)
    \/ \E r \in RunIds : Complete(r)
    \/ \E r \in RunIds : ResumeRead(r)
    \/ RetryClick(1)
    \/ \E r \in RunIds : RetryReset(r)
    \/ DeleteClick(1)
    \/ DeleteFinish(1)
    \/ \E it \in items : handleRowClick(it)
    \/ \E p \in 1..MaxPages : ReprocClick(1, p)
    \/ \E q \in ReprocIds : ReprocPurge(q)
    \/ \E q \in ReprocIds : ReprocLoad(q)
    \/ \E q \in ReprocIds : \E k \in 0..MaxItems : ReprocSuccess(q, k)
    \/ \E q \in ReprocIds : ReprocFail(q)
JobsSpec == JobsInit /\ [][JobsNext]_vars

\* One job, run and retried once, where a page image may fail to be saved.
SaveInit == InitWith([jobs |-> 1, runs |-> 2, reproc |-> 0])
SaveNext ==
    \/ Pipeline
    \/ RetryOps
    \/ \E r \in RunIds : SaveImageFail(r)
SaveSpec == SaveInit /\ [][SaveNext]_vars

\* Several jobs side by side, each run once.
PipeInit == InitWith([jobs |-> MaxJobs, runs |-> MaxJobs, reproc |-> 0])
PipeSpec == PipeInit /\ [][FreshPipeline]_vars

\* The runs go on: every continuation that is ready is eventually taken and
\* every extraction call that was started eventually settles.
PipeFair ==
    /\ \A r \in 1..MaxJobs : WF_vars(RunStart(r))
    /\ \A r \in 1..MaxJobs : WF_vars(CheckFirstPage(r))
    /\ \A r \in 1..MaxJobs : WF_vars(RasterOk(r) \/ RasterFail(r))
    /\ \A r \in 1..MaxJobs : WF_vars(SaveImage(r))
    /\ \A r \in 1..MaxJobs : \A i \in 0..(MaxPages - 1) :
          WF_vars(PageFail(r, i) \/ \E k \in 0..MaxItems : PageSuccess(r, i, k))
    /\ \A r \in 1..MaxJobs : WF_vars(Complete(r))
PipeLive == PipeSpec /\ PipeFair

\* One job with retry, row edits and targeted page reprocessing.
WorkInit == InitWith([jobs |-> 1, runs |-> 2, reproc |-> MaxReproc])
WorkNext == Pipeline \/ RetryOps \/ ReprocOps \/ EditOps
WorkSpec == WorkInit /\ [][WorkNext]_vars

\* One job that is run once, with page reprocessing, clear-all and reloads.
ClearInit == InitWith([jobs |-> 1, runs |-> 1, reproc |-> MaxReproc])
ClearNext == FreshPipeline \/ ReprocOps \/ ClearOps \/ Reload
ClearSpec == ClearInit /\ [][ClearNext]_vars

\* Jobs that are run once, with page loads whose restore may fail.
RestoreInit == InitWith([jobs |-> MaxJobs, runs |-> MaxJobs, reproc |-> 0])
RestoreNext == FreshPipeline \/ PageLoad \/ RestoreOk \/ RestoreFail
RestoreSpec == RestoreInit /\ [][RestoreNext]_vars
\* loadAllData settles
RestoreFair == WF_vars(RestoreOk \/ RestoreFail)
RestoreLive == RestoreSpec /\ RestoreFair

\* One job with retry, where the page may be loaded again at any moment.
ReloadInit == InitWith([jobs |-> 1, runs |-> 2, reproc |-> 0])
ReloadNext == Pipeline \/ RetryOps \/ Reload
ReloadSpec == ReloadInit /\ [][ReloadNext]_vars

\* Every continuation that is ready is eventually taken, every call settles,
\* and a retry button that stays on offer is eventually clicked.
ReloadFair ==
    /\ \A r \in 1..2 : WF_vars(RunStart(r))
    /\ \A r \in 1..2 : WF_vars(CheckFirstPage(r))
    /\ \A r \in 1..2 : WF_vars(ResumeRead(r))
    /\ \A r \in 1..2 : WF_vars(RasterOk(r) \/ RasterFail(r))
    /\ \A r \in 1..2 : WF_vars(SaveImage(r))
    /\ \A r \in 1..2 : \A i \in 0..(MaxPages - 1) :
          WF_vars(PageFail(r, i) \/ \E k \in 0..MaxItems : PageSuccess(r, i, k))
    /\ \A r \in 1..2 : WF_vars(Complete(r))
    /\ WF_vars(RetryClick(1))
    /\ \A r \in 1..2 : WF_vars(RetryReset(r))
ReloadLive == ReloadSpec /\ ReloadFair

\* The extraction client alone: processPickingList is called, by whichever
\* handler, and each call that was started settles.
Waiting(l) == {l.queue[n] : n \in DOMAIN l.queue}

LimitCall(c) ==
    /\ c \notin limiter.running \cup Waiting(limiter)
    /\ limiter' = LimitSubmit(limiter, c)
    /\ UNCHANGED <<jobs, items, dbJobs, dbItems, dbImages, runs, reprocs, deletes,
                   nextJob, nextRun, nextReproc, cap, urls, edits, loads, nav, clearing, restore, tvars, pvars, dvars, cvars, gvars>>

LimitSettle(c) ==
    /\ c \in limiter.running
    /\ limiter' = LimitRelease(limiter, c)
    /\ UNCHANGED <<jobs, items, dbJobs, dbItems, dbImages, runs, reprocs, deletes,
                   nextJob, nextRun, nextReproc, cap, urls, edits, loads, nav, clearing, restore, tvars, pvars, dvars, cvars, gvars>>

LimitInit == InitWith([jobs |-> 0, runs |-> 0, reproc |-> 0])
LimitNext ==
    \/ \E c \in 1..MaxCalls : LimitCall(c)
    \/ \E c \in 1..MaxCalls : LimitSettle(c)
LimitSpec == LimitInit /\ [][LimitNext]_vars
\* every call in flight eventually completes or fails
LimitFair == \A c \in 1..MaxCalls : WF_vars(LimitSettle(c))
LimitLive == LimitSpec /\ LimitFair

\* The calls of processPickingList one by one: limit(async () => { base64 =
\* await fileToBase64(file); try { response = await generateContent(...);
\* clean, parse, map } catch (error) { throw error } }).  A call is
\* submitted, started by the limiter, reads its file, asks the service, and
\* settles; it can fail at the read, at the service and at the parse.
CallFailures == {"readfail", "remotefail", "parsefail"}
CallSettled == CallFailures \cup {"ok"}
CallUnchanged ==
    UNCHANGED <<jobs, items, dbJobs, dbItems, dbImages, runs, reprocs, deletes,
                nextJob, nextRun, nextReproc, cap, urls, edits, loads, nav, clearing, restore,
                template, columns, gasExec, sheetJobs, sheetItems, tvars, pvars, dvars, cvars>>

CallSubmit(c) ==
    /\ callState[c] = "none"
    /\ \A b \in 1..(c - 1) : callState[b] # "none"
    /\ limiter' = LimitSubmit(limiter, c)
    /\ callState' = [callState EXCEPT ![c] = "submitted"]
    /\ CallUnchanged

\* variant: a file that cannot be read leaves the call in flight
CallReadLeaks(c, ok) ==
    /\ c \in limiter.running
    /\ callState[c] = "submitted"
    /\ callState' = [callState EXCEPT ![c] = IF ok THEN "read" ELSE "readfail"]
    /\ UNCHANGED limiter
    /\ CallUnchanged

\* fileToBase64 resolves, or rejects (reader.onerror): the async function
\* rejects and p-limit goes on to the next call
CallRead(c, ok) ==
    /\ c \in limiter.running
    /\ callState[c] = "submitted"
    /\ callState' = [callState EXCEPT ![c] = IF ok THEN "read" ELSE "readfail"]
    /\ limiter' = IF ok THEN limiter ELSE LimitRelease(limiter, c)
    /\ CallUnchanged

\* generateContent resolves and the text parses (ok), generateContent
\* rejects (remotefail) or the text cannot be used (parsefail); the catch
\* throws again
CallAnswer(c, outcome) ==
    /\ c \in limiter.running
    /\ callState[c] = "read"
    /\ callState' = [callState EXCEPT ![c] = outcome]
    /\ limiter' = LimitRelease(limiter, c)
    /\ CallUnchanged

CallInit == InitWith([jobs |-> 0, runs |-> 0, reproc |-> 0])
CallNext ==
    \/ \E c \in 1..MaxCalls : CallSubmit(c)
    \/ \E c \in 1..MaxCalls : \E ok \in BOOLEAN : CallRead(c, ok)
    \/ \E c \in 1..MaxCalls : \E outcome \in {"ok", "remotefail", "parsefail"} :
          CallAnswer(c, outcome)
CallSpec == CallInit /\ [][CallNext]_vars
\* a file read and a request to the service come to an end
CallFair == \A c \in 1..MaxCalls :
               /\ WF_vars(\E ok \in BOOLEAN : CallRead(c, ok))
               /\ WF_vars(\E outcome \in {"ok", "remotefail", "parsefail"} : CallAnswer(c, outcome))
CallLive == CallSpec /\ CallFair


\* Several jobs side by side, each run once, any of them deleted.
DeleteNext == FreshPipeline \/ DeleteOps
DeleteSpec == PipeInit /\ [][DeleteNext]_vars

\* The template store: imports, several of them under way at a time, and
\* deletes.
TemplateInit == InitWith([jobs |-> 0, runs |-> 0, reproc |-> 0])
TemplateNext ==
    \/ \E s \in 1..MaxImports : \E doc \in Docs : ImportStart(s, doc)
    \/ \E s \in 1..MaxImports : ImportFinish(s)
    \/ \E t \in templates : DeleteTemplate(t.id)
TemplateSpec == TemplateInit /\ [][TemplateNext]_vars

\* The dynamic-schema application: files are enqueued and processed, and
\* templates are copied, deleted and selected.
TemplateIdsNow == {t.id : t \in templates} \cup DefaultIds
DynInit == InitWith([jobs |-> MaxJobs, runs |-> MaxJobs, reproc |-> 0])
DynNext ==
    \/ \E ok \in BOOLEAN : DynInitDone(ok)
    \/ \E n \in 1..MaxJobs : \E fs \in SeqsOf(Files, n) : DynEnqueue(fs)
    \/ \E n \in 1..MaxJobs : \E fs \in SeqsOf(Files, n) : DynRefuse(fs)
    \/ \E j \in 1..MaxJobs : DynConvert(j)
    \/ \E j \in 1..MaxJobs : DynFinish(j)
    \/ \E j \in 1..MaxJobs : \E ok \in BOOLEAN : DynConverted(j, ok)
    \/ \E j \in 1..MaxJobs : DynLookup(j)
    \/ \E j \in 1..MaxJobs : \E ok \in BOOLEAN : \E k \in 0..MaxItems : DynPage(j, ok, k)
    \/ \E id \in TemplateIdsNow : DynDuplicate(id)
    \/ \E id \in TemplateIdsNow : \E first \in TemplateIdsNow : DynDelete(id, first)
    \/ \E id \in TemplateIdsNow : DynSelect(id)
DynSpec == DynInit /\ [][DynNext]_vars

\* One file is processed; every extraction call gets a response text.
ReplyInit == InitWith([jobs |-> 1, runs |-> 1, reproc |-> 0])
ReplyNext ==
    \/ \E fs \in SeqsOf(Files, 1) : Enqueue(fs)
    \/ \E r \in RunIds : RunStart(r)
    \/ \E r \in RunIds : CheckFirstPage(r)
    \/ \E r \in RunIds : RasterOk(r)
    \/ \E r \in RunIds : RasterFail(r)
    \/ \E r \in RunIds : SaveImage(r)
    \/ \E r \in RunIds : Complete(r)
    \/ \E r \in RunIds : \E i \in 0..(MaxPages - 1) : \E text \in Responses : Reply(r, i, text)
    \/ \E r \in RunIds : \E i \in 0..(MaxPages - 1) : PageSettle(r, i)
ReplySpec == ReplyInit /\ [][ReplyNext]_vars

\* The columns of a template are derived.
ColumnInit == InitWith([jobs |-> 0, runs |-> 0, reproc |-> 0])
ColumnNext == \E t \in Templates : DeriveColumns(t)
ColumnSpec == ColumnInit /\ [][ColumnNext]_vars

\* A row of a response is mapped.
MapInit == InitWith([jobs |-> 0, runs |-> 0, reproc |-> 0])
MapNext == \E raw \in RawRows : MapRow(raw)
MapSpec == MapInit /\ [][MapNext]_vars

\* One row: extracted, then edited.
ItemInit == InitWith([jobs |-> 0, runs |-> 0, reproc |-> 0])
ItemNext ==
    \/ \E raw \in RawItems : IngestRow(raw)
    \/ \E it \in items : EditItem(it)
    \/ \E it \in items : \E t \in NumText : EditReportedTotal(it, t)
    \/ \E it \in items : \E i \in 1..MaxDists : \E t \in NumText :
          EditDistribution(it, i, t)
ItemSpec == ItemInit /\ [][ItemNext]_vars

-------------------------------------------------------
Terminal == {"completed", "error"}
NonTerminal == {"queued", "converting", "processing"}

\* one step of the lifecycle of section 4.4; "absent" is a job that is not
\* (or no longer) in the list
StatusStep(a, b) ==
    \/ a = b
    \/ a = "absent" /\ b = "queued"
    \/ b = "absent"
    \/ a = "queued" /\ b = "converting"
    \/ a = "converting" /\ b = "processing"
    \/ a = "processing" /\ b = "completed"
    \/ a \in NonTerminal /\ b = "error"
    \/ a \in Terminal /\ b = "queued"

\* C1: a job's status changes only along queued -> converting -> processing
\* -> completed, or from a non-terminal status to error; a completed or
\* failed job changes status only by the reset of a retry, to queued.
C1_StatusFlow ==
    [][\A j \in DOMAIN jobs :
          /\ StatusStep(jobs[j].status, jobs'[j].status)
          /\ (jobs[j].status \in Terminal /\ jobs'[j].status = "queued")
                => \E r \in DOMAIN runs : /\ runs[r].pc = "retry" /\ runs[r].job = j
                                         /\ runs'[r].pc = "start"]_vars

\* pages of run r whose extraction call has settled
Settled(r) == Cardinality({i \in DOMAIN runs[r].res : runs[r].res[i] # "pending"})

InPages(r) == runs[r].pc \in {"pages", "finishing"}

\* C2: while a run is in its processing phase, processedPages of its job
\* equals the number of its pages that have settled, by success or failure.
C2_SettledCounted ==
    \A r \in RunIds :
        (InPages(r) /\ jobs[runs[r].job] # NoJob)
            => jobs[runs[r].job].processedPages = Settled(r)

\* the number of pages the page list of a file has
PageCount(f) == IF f.pdf THEN f.n ELSE 1

JobDone(j) ==
    /\ jobs[j].status = "completed"
    /\ jobs[j].processedPages = PageCount(jobs[j].file)
    /\ jobs[j].totalPages = PageCount(jobs[j].file)

\* C3: a job that has reached the processing phase is eventually completed
\* with processedPages = totalPages = its number of pages, whatever its
\* pages do; from processing it goes nowhere but to completed, so no failing
\* page makes it error.
C3_EventuallyCompleted ==
    /\ \A j \in 1..MaxJobs : (jobs[j].status = "processing") ~> JobDone(j)
    /\ [][\A j \in DOMAIN jobs :
             jobs[j].status = "processing"
                => jobs'[j].status \in {"processing", "completed"}]_vars

\* every page of some job failed and the run is about to complete
C3_Witness ==
    \E r \in RunIds : /\ runs[r].pc = "finishing"
                      /\ Len(runs[r].pages) = MaxPages
                      /\ \A i \in DOMAIN runs[r].res : runs[r].res[i] = "fail"

ItemIds(S) == {it.id : it \in S}

\* C4: a failing page adds no item and stops no sibling: all along the
\* processing phase the job's items are the items its successful pages
\* returned, and the step that completes the job leaves exactly these, with
\* status completed and processedPages = number of pages.
C4_ItemsOfSucceededPages ==
    [][\A r \in DOMAIN runs :
          /\ InPages(r)' =>
                /\ ItemIds(JobItems(items', runs'[r].job)) = runs'[r].got
                /\ ItemIds(JobItems(dbItems', runs'[r].job)) = runs'[r].got
                /\ \A it \in JobItems(items', runs'[r].job) :
                      /\ it.id[1] = r
                      /\ runs'[r].res[it.id[2] + 1] = "ok"
                      /\ it.pageNumber = it.id[2] + 1
          /\ (runs[r].pc = "finishing" /\ runs'[r].pc = "idle") =>
                /\ jobs'[runs[r].job].status = "completed"
                /\ jobs'[runs[r].job].processedPages = Len(runs[r].pages)
                /\ ItemIds(JobItems(items', runs[r].job)) = runs[r].got]_vars

\* two pages, one failed, one returned one item, all settled
C4_Witness ==
    \E r \in RunIds :
        /\ runs[r].pc = "finishing"
        /\ Len(runs[r].pages) = 2
        /\ \E i \in 1..2 : runs[r].res[i] = "fail" /\ runs[r].res[3 - i] = "ok"
        /\ Cardinality(JobItems(items, runs[r].job)) = 1

RunCalls(r) == {c \in limiter.running \cup {limiter.queue[n] : n \in DOMAIN limiter.queue} : c[1] = r}

\* C6: when the rasterizer rejects, the job goes from converting to error
\* with an error message; no extraction call was issued for it, no page
\* image and no item of it is stored, and totalPages is still 0.
C6_RasterFailure ==
    [][\A r \in DOMAIN runs :
          (runs[r].pc = "raster" /\ runs'[r].pc = "idle") =>
              LET j == runs[r].job IN
              /\ jobs[j].status = "converting"
              /\ jobs'[j].status = "error"
              /\ jobs'[j].err # "none"
              /\ jobs'[j].totalPages = 0
              /\ dbJobs'[j] = jobs'[j]
              /\ runs[r].res = <<>> /\ RunCalls(r) = {} /\ RunCalls(r)' = {}
              /\ {im \in dbImages' : im.job = j} = {}
              /\ JobItems(items', j) = {} /\ JobItems(dbItems', j) = {}]_vars

C6_Witness ==
    \E j \in JobIds : /\ jobs[j].status = "error" /\ jobs[j].file.pdf
                      /\ jobs[j].totalPages = 0

\* C5: for every job whose totalPages is known, 0 <= processedPages <=
\* totalPages, and processedPages goes down only when a retry resets it.
C5_ProgressWithinTotal ==
    [][\A j \in DOMAIN jobs :
          /\ (jobs'[j] # NoJob /\ jobs'[j].totalPages # 0)
                => (0 <= jobs'[j].processedPages
                    /\ jobs'[j].processedPages <= jobs'[j].totalPages)
          /\ (jobs[j] # NoJob /\ jobs'[j] # NoJob
              /\ ~\E r \in DOMAIN runs : runs[r].pc = "retry" /\ runs'[r].pc = "start")
                => jobs'[j].processedPages >= jobs[j].processedPages]_vars


\* a retry has just reset its job and processJob has not yet touched it
JustReset(r) == runs[r].pc = "start" /\ runs[r].snap # NoJob

\* C7: right after the reset of a retry no item of the job that existed when
\* the retry was invoked is left in the state or in the item store, and the
\* job reads queued, processedPages 0, no error message.
C7_RetryPurges ==
    \A r \in RunIds :
        JustReset(r) =>
            /\ \A it \in items \cup dbItems : it.id \notin runs[r].pre
            /\ jobs[runs[r].job] # NoJob =>
                  /\ jobs[runs[r].job].status = "queued"
                  /\ jobs[runs[r].job].processedPages = 0
                  /\ jobs[runs[r].job].err = "none"

StoredImages(j) == {im \in dbImages : im.job = j}

\* C8: a run that found a stored image at index 0 never calls the rasterizer
\* and never writes a page image; its page list is the images read from the
\* indices 0, 1, 2, ... in this order, and when it hands its pages to
\* extraction these are all the images stored for the job.  A run that
\* writes images found none at index 0.
C8_ResumeReusesImages ==
    [][\A r \in DOMAIN runs :
          /\ runs'[r].resumed =>
                /\ runs'[r].rasterCalls = 0
                /\ runs'[r].wrote = 0
                /\ \A i \in DOMAIN runs'[r].pages : runs'[r].pages[i] = <<runs'[r].job, i - 1>>
          /\ (runs[r].pc = "resume" /\ runs'[r].pc \in {"pages", "finishing"}) =>
                /\ Len(runs'[r].pages) >= 1
                /\ {im.idx : im \in StoredImages(runs[r].job)} = 0..(Len(runs'[r].pages) - 1)
                /\ dbImages' = dbImages
          /\ (runs[r].pc = "check0" /\ runs'[r].pc \in {"raster", "saving"}) =>
                GetPageImage(runs[r].job, 0) = NoImg
          /\ runs'[r].wrote > runs[r].wrote => ~runs[r].resumed]_vars

C8_Witness ==
    \E r \in RunIds : /\ runs[r].resumed /\ runs[r].pc = "pages"
                      /\ Len(runs[r].pages) = MaxPages

\* C9: a job that a reload left in a non-terminal status, with no run of
\* processJob behind it any more, is eventually completed.
Interrupted(j) ==
    /\ jobs[j] # NoJob
    /\ jobs[j].status \in NonTerminal
    /\ \A r \in DOMAIN runs : ~(runs[r].pc # "idle" /\ runs[r].job = j)

C9_Resumable ==
    \A j \in 1..1 : Interrupted(j) ~> (jobs[j] # NoJob /\ jobs[j].status = "completed")

\* C10: the calls in flight are those the limiter counts, never more than
\* CONCURRENCY_LIMIT; free slots (the limit minus the calls in flight) are
\* never negative, and a call waits only while no slot is free.
C10_Ceiling ==
    /\ limiter.activeCount = Cardinality(limiter.running)
    /\ Cardinality(limiter.running) <= CONCURRENCY_LIMIT
    /\ CONCURRENCY_LIMIT - Cardinality(limiter.running) >= 0
    /\ Len(limiter.queue) > 0 => Cardinality(limiter.running) = CONCURRENCY_LIMIT

C10_Witness ==
    /\ Cardinality(limiter.running) = CONCURRENCY_LIMIT
    /\ Len(limiter.queue) > 0

Deleted(j) == j < nextJob /\ jobs[j] = NoJob /\ j \notin deletes

\* C12: once a job has been deleted, no item with its id is in the state or
\* in the item store, no page image of it is stored, and its record is in
\* neither the state nor the job store, whatever arrives late.
C12_DeletedStaysGone ==
    \A j \in JobIds :
        Deleted(j) =>
            /\ JobItems(items, j) = {}
            /\ JobItems(dbItems, j) = {}
            /\ StoredImages(j) = {}
            /\ dbJobs[j] = NoJob

\* a handler has made its awaited delete in the store and has not yet made
\* the matching change of the state
WritePending ==
    \/ deletes # {}
    \/ \E r \in RunIds : runs[r].pc = "retry"
    \/ \E q \in ReprocIds : reprocs[q].pc = "purge"

\* C13: whenever no write is pending, the job store holds the jobs of the
\* state and the item store holds the items of the state (without their
\* object URLs).
C13_StoreMirrorsState ==
    ~WritePending => (dbJobs = jobs /\ dbItems = StripAll(items))

OtherJobsKept(j) ==
    /\ \A k \in DOMAIN jobs : k # j => (jobs'[k] = jobs[k] /\ dbJobs'[k] = dbJobs[k])
    /\ {it \in items' : it.jobId # j} = {it \in items : it.jobId # j}
    /\ {it \in dbItems' : it.jobId # j} = {it \in dbItems : it.jobId # j}
    /\ {im \in dbImages' : im.job # j} = {im \in dbImages : im.job # j}

\* C14: the store's delete of a job takes its record, its items and its page
\* images and lets the handler go on; the handler then takes the job and its
\* items out of the state and writes nothing; every other job, its items and
\* its images are as before.
C14_DeleteCascades ==
    [][\A j \in DOMAIN jobs :
          /\ (dbJobs[j] # NoJob /\ dbJobs'[j] = NoJob) =>
                /\ JobItems(dbItems', j) = {}
                /\ {im \in dbImages' : im.job = j} = {}
                /\ j \in deletes'
                /\ OtherJobsKept(j)
          /\ (j \in deletes /\ j \notin deletes') =>
                /\ jobs'[j] = NoJob
                /\ JobItems(items', j) = {}
                /\ UNCHANGED <<dbJobs, dbItems, dbImages>>
                /\ OtherJobsKept(j)]_vars

\* C15: every item, in the state and in the store, has calculatedTotal =
\* the sum of its distribution quantities and isCorrect = (calculatedTotal =
\* reportedTotal), after extraction and after every edit.
C15_TotalsConsistent ==
    \A it \in items \cup dbItems :
        /\ it.calculatedTotal = SumQty(it.distributions)
        /\ it.isCorrect = (it.calculatedTotal = it.reportedTotal)

\* after a second edit of a quantity or total the row adds up to its
\* reported total MaxQty
C15_Witness ==
    /\ edits >= 2
    /\ \E it \in items : /\ it.isCorrect
                          /\ it.reportedTotal = MaxQty
                          /\ Len(it.distributions) >= 1
                          /\ it.distributions[1].quantity = MaxQty

\* C16: a targeted reprocessing of page p of job j, whatever the status of
\* the job, removes exactly the items of (j, p) from the store and from the
\* working set, leaves every item of another page or job as it is, appends
\* the fresh items tagged with (j, p), and changes nothing of any job but
\* the progress message of j.
PageItems(S, j, p) == {it \in S : it.jobId = j /\ it.pageNumber = p}
OffPage(S, j, p) == S \ PageItems(S, j, p)
OnlyMessage(old, new) == new = [old EXCEPT !.msg = new.msg]
C16_ReprocessFrame ==
    [][\A q \in ReprocIds :
          LET a == reprocs[q]
              b == reprocs'[q]
              j == IF a.pc = "idle" THEN b.job ELSE a.job
              p == IF a.pc = "idle" THEN b.page ELSE a.page
          IN  (a # b /\ loads' = loads) =>
                /\ jobs[j] = NoJob \/ OnlyMessage(jobs[j], jobs'[j])
                /\ \A o \in JobIds \ {j} : jobs'[o] = jobs[o]
                /\ OffPage(items', j, p) = OffPage(items, j, p)
                /\ OffPage(dbItems', j, p) = OffPage(dbItems, j, p)
                /\ a.pc = "idle" => PageItems(dbItems', j, p) = {} /\ items' = items
                /\ a.pc = "purge" => PageItems(items', j, p) = {} /\ PageItems(dbItems', j, p) = {}
                /\ a.pc = "load" => items' = items /\ dbItems' = dbItems
                /\ a.pc = "call" => /\ items \subseteq items'
                                    /\ dbItems' = dbItems \cup StripAll(items' \ items)]_vars

\* C17: when the image of the page is absent at the moment a targeted
\* reprocessing reads it, no extraction call is submitted, no item and no
\* object URL is touched, and the only change is the failure message on the
\* job; from the request on, the job keeps its status, totalPages and
\* processedPages.
C17_AbsentImage ==
    [][\A q \in ReprocIds :
          LET a == reprocs[q]
              j == IF a.pc = "idle" THEN reprocs'[q].job ELSE a.job
          IN  (reprocs'[q] # a /\ loads' = loads) =>
                /\ (a.pc = "load" /\ GetPageImage(a.job, a.page - 1) = NoImg) =>
                      /\ limiter' = limiter
                      /\ urls' = urls
                      /\ items' = items /\ dbItems' = dbItems /\ dbImages' = dbImages
                      /\ reprocs'[q] = IdleReproc
                      /\ jobs[j] # NoJob =>
                            jobs' = [jobs EXCEPT ![j].msg =
                                       <<"reprocfailed: Page image not found", a.page, 0>>]
                /\ a.pc \in {"idle", "purge", "load"} =>
                      jobs[j] = NoJob \/ OnlyMessage(jobs[j], jobs'[j])]_vars
C17_Witness ==
    \E j \in JobIds :
        /\ jobs[j] # NoJob
        /\ jobs[j].msg[1] = "reprocfailed: Page image not found"
        /\ GetPageImage(j, jobs[j].msg[2] - 1) = NoImg
        /\ \A q \in ReprocIds : reprocs[q] = IdleReproc

\* C18: an object URL is revoked when the last item that carries it leaves
\* the working set, be it by job delete, by the purge of a retry or by the
\* purge of a targeted page reprocessing.
C18_HandlesReleased ==
    [][loads' = loads =>
          \A u \in urls :
             (u \in UrlsOf(items) /\ u \notin UrlsOf(items')) => u \notin urls']_vars

\* C19: no item of the durable item store carries sourceImageUrl, and every
\* item written to the store (on ingest, on edit, on reprocessing) is the
\* item of the working set without that field, all other fields equal.
C19_StoredWithoutHandle ==
    /\ [](\A it \in dbItems : "sourceImageUrl" \notin DOMAIN it)
    /\ [][\A it \in dbItems' \ dbItems :
             \E m \in items' :
                /\ DOMAIN it = DOMAIN m \ {"sourceImageUrl"}
                /\ \A f \in DOMAIN it : it[f] = m[f]]_vars
C19_Witness ==
    \E m \in items :
        /\ "sourceImageUrl" \in DOMAIN m
        /\ m.sourceImageUrl \in urls
        /\ m.isVerified
        /\ \E it \in dbItems : it.id = m.id /\ it.isVerified

\* C20: restoring is lossless and idempotent.  Two restores of the same
\* durable state return the stored jobs and, up to the object URL, the same
\* items; every stored item is returned exactly once, with an object URL of
\* its own exactly if the image of its page is stored; and a reload leaves
\* the three stores as they are and puts what was restored into the lists.
ImageStored(it) == \E im \in dbImages : im.job = it.jobId /\ im.idx = it.pageNumber - 1
C20_RestoreLossless ==
    /\ [](LET first == LoadAllData(loads + 1)
              second == LoadAllData(loads + 2)
          IN  /\ first.jobs = dbJobs /\ second.jobs = first.jobs
              /\ StripAll(first.items) = dbItems
              /\ StripAll(second.items) = StripAll(first.items)
              /\ Cardinality({m.id : m \in first.items}) = Cardinality(dbItems)
              /\ Cardinality(first.items) = Cardinality(dbItems)
              /\ \A m \in first.items \cup second.items :
                    ("sourceImageUrl" \in DOMAIN m) <=> ImageStored(m)
              /\ UrlsOf(first.items) \cap UrlsOf(second.items) = {}
              /\ Cardinality(UrlsOf(first.items)) =
                    Cardinality({m \in first.items : ImageStored(m)}))
    /\ [][loads' # loads =>
             /\ UNCHANGED <<dbJobs, dbItems, dbImages>>
             /\ jobs' = dbJobs
             /\ StripAll(items') = dbItems
             /\ urls' = UrlsOf(items')]_vars
C20_Witness ==
    /\ loads = 2
    /\ \E m \in items : "sourceImageUrl" \notin DOMAIN m /\ jobs[m.jobId] # NoJob
    /\ StripAll(items) = dbItems

\* C21: when a run completes its job and every page succeeded, the job is
\* completed with processedPages = totalPages = number of pages, and the
\* items of the job are exactly the items the pages returned, each carrying
\* the job id and the index of its page in the page list plus one, in
\* whatever order the pages finished.
AllOk(r) == \A i \in DOMAIN runs[r].res : runs[r].res[i] = "ok"
C21_CompletedJobItems ==
    [][\A r \in DOMAIN runs :
          LET j == runs[r].job
              n == Len(runs[r].pages)
          IN  (runs[r].pc = "finishing" /\ runs'[r].pc = "idle" /\ AllOk(r)) =>
                /\ jobs'[j].status = "completed"
                /\ jobs'[j].processedPages = n /\ jobs'[j].totalPages = n
                /\ ItemIds(JobItems(items', j)) = runs[r].got
                /\ \A it \in items' :
                      it.id[1] = r <=> it.jobId = j
                /\ \A it \in JobItems(items', j) :
                      /\ it.id[2] \in 0..(n - 1)
                      /\ it.pageNumber = it.id[2] + 1
                /\ JobItems(dbItems', j) = StripAll(JobItems(items', j))]_vars

\* two pages with one item each: the job is completed with 2 of 2 pages and
\* has exactly two items, of pages 1 and 2
C21_Witness ==
    \E j \in JobIds :
        /\ jobs[j].status = "completed"
        /\ jobs[j].processedPages = 2 /\ jobs[j].totalPages = 2
        /\ Cardinality(JobItems(items, j)) = 2
        /\ {it.pageNumber : it \in JobItems(items, j)} = {1, 2}

\* C22: a job that is processing or completed has at least one page:
\* totalPages is 0 only until the page list is known.
C22_PagesKnown ==
    \A j \in DOMAIN jobs :
        (jobs[j] # NoJob /\ jobs[j].status \in {"processing", "completed"})
            => jobs[j].totalPages >= 1

\* C23, as stated: right after the reset of a retry the store holds no page
\* image of the job.
C23_RetryPurgesImages ==
    \A r \in RunIds : JustReset(r) => StoredImages(runs[r].job) = {}

\* C23, amended: a retry deletes the items of the job from the store and
\* then, with the reset to queued, from the working set, and neither step
\* removes or changes a page image.
C23_RetryKeepsImages ==
    [][\A r \in DOMAIN runs :
          /\ (runs[r].pc = "idle" /\ runs'[r].pc = "retry") =>
                /\ JobItems(dbItems', runs'[r].job) = {}
                /\ dbImages' = dbImages
          /\ (runs[r].pc = "retry" /\ runs'[r].pc = "start") =>
                /\ dbImages' = dbImages
                /\ JobItems(items', runs[r].job) = {}
                /\ jobs'[runs[r].job] # NoJob =>
                      /\ jobs'[runs[r].job].status = "queued"
                      /\ jobs'[runs[r].job].processedPages = 0]_vars

\* a retry has just reset a job all of whose page images are still stored
C23_Witness ==
    \E r \in RunIds :
        /\ JustReset(r)
        /\ jobs[runs[r].job] # NoJob
        /\ jobs[runs[r].job].status = "queued"
        /\ Cardinality(StoredImages(runs[r].job)) = MaxPages

\* C24: a restore always ends, with isRestoring false; when loadAllData
\* fails both lists are empty after it and nothing was written, and the
\* application goes on from there.
C24_RestoreDegrades ==
    /\ (restore = "pending") ~> (restore # "pending")
    /\ [](restore = "pending" =>
             /\ items = {}
             /\ \A j \in JobIds : jobs[j] = NoJob)
    /\ [][(restore = "pending" /\ restore' = "failed") =>
             /\ items' = {}
             /\ \A j \in JobIds : jobs'[j] = NoJob
             /\ UNCHANGED <<dbJobs, dbItems, dbImages>>]_vars

\* the restore failed over a store that holds a job and its items, and a
\* file was enqueued afterwards
C24_Witness ==
    /\ restore = "failed"
    /\ dbItems # {}
    /\ \E j \in JobIds : jobs[j] # NoJob /\ jobs[j].status = "converting"

\* C25: an import stores no invalid template and overwrites none: a
\* document without id, name or a list of fields is rejected and the store
\* is left alone; an import that stores leaves every template that is in the
\* store as it is, and when a template with the document's id exists,
\* stored or default, the document is stored under another id and name.
C25_ImportNeverOverwrites ==
    /\ [](\A t \in templates : t.id # <<>> /\ t.name # "" /\ t.fields = "list")
    /\ [][\A s \in DOMAIN imports :
             /\ (imports[s].pc = "idle" /\ imports'[s].pc # "idle"
                 /\ ~ValidTemplate(imports'[s].doc)) =>
                   imports'[s].pc = "rejected" /\ templates' = templates
             /\ (imports[s].pc = "get" /\ imports'[s].pc = "done") =>
                   /\ templates \subseteq templates'
                   /\ TemplateExists(imports[s].doc.id) =>
                         \E t \in templates' :
                            /\ t.id = imports'[s].stored
                            /\ t.id # imports[s].doc.id
                            /\ t.name # imports[s].doc.name
                            /\ t.v = imports[s].doc.v]_vars

\* The segments of a distribution string t, by position: a segment starts
\* at the beginning or after a '|' and ends before the next '|'; its code is
\* what stands before its first ':' and its quantity what stands between
\* that ':' and the next ':' or the end of the segment.
SegStarts(t) == {a \in 1..(Len(t) + 1) : a = 1 \/ t[a - 1] = "|"}
FirstAt(t, a, chars) ==
    IF \E b \in a..Len(t) : t[b] \in chars
    THEN CHOOSE b \in a..Len(t) : t[b] \in chars /\ \A c \in a..(b - 1) : t[c] \notin chars
    ELSE Len(t) + 1
HasColon(t, a) == FirstAt(t, a, {":"}) < FirstAt(t, a, {"|"})
CodeOf(t, a) == SubSeq(t, a, FirstAt(t, a, {":"}) - 1)
QtyOf(t, a) == LET c == FirstAt(t, a, {":"}) IN SubSeq(t, c + 1, FirstAt(t, c + 1, {":", "|"}) - 1)
WellFormed(t, a) == HasColon(t, a) /\ CodeOf(t, a) # <<>> /\ QtyOf(t, a) # <<>>
A3B2 == <<[shopCode |-> <<"A">>, quantity |-> 3], [shopCode |-> <<"B">>, quantity |-> 2]>>

\* C26: the distributions of a mapped row are, in the order of the string,
\* one for every segment that has a non-empty code and a non-empty quantity
\* and none for any other segment; the quantity is the integer the quantity
\* text reads as and 0 when it reads as none; calculatedTotal is the sum of
\* the quantities; "A:3|B:2" and "A:3|bad|B:2" both give (A,3), (B,2).
C26_DistributionsParsed ==
    rawRow.given =>
        LET t == rawRow.dists
            ds == mapped.distributions
            kept == {a \in SegStarts(t) : WellFormed(t, a)} IN
        /\ Len(ds) = Cardinality(kept)
        /\ \A a \in kept :
              LET d == ds[Cardinality({b \in kept : b <= a})]
                  q == Trim(QtyOf(t, a)) IN
              /\ d.shopCode = Trim(CodeOf(t, a))
              /\ (q # <<>> /\ \A i \in 1..Len(q) : q[i] \in Digits) => d.quantity = ValueOf(q)
              /\ (q = <<>> \/ q[1] \notin Digits \cup {"-", "+"}) => d.quantity = 0
        /\ mapped.calculatedTotal = SumQty(ds)
        /\ t = <<"A", ":", "3", "|", "B", ":", "2">> => ds = A3B2
        /\ t = <<"A", ":", "3", "|", "b", "a", "d", "|", "B", ":", "2">> => ds = A3B2

\* "A:3|bad|B:2" has been mapped: two distributions, total 5
C26_Witness ==
    /\ rawRow.given
    /\ rawRow.dists = <<"A", ":", "3", "|", "b", "a", "d", "|", "B", ":", "2">>
    /\ Len(mapped.distributions) = 2
    /\ mapped.calculatedTotal = 5

\* the same text with every white space character written as an ASCII space
AsciiSpaced(v) == [i \in 1..Len(v) |-> IF v[i] \in WhiteSpace THEN " " ELSE v[i]]
\* the last run of characters of v that are not white space, by position
LastToken(v) ==
    LET solid == {i \in 1..Len(v) : v[i] \notin WhiteSpace} IN
    IF solid = {} THEN <<>>
    ELSE LET e == CHOOSE i \in solid : \A k \in solid : k <= i
             b == CHOOSE i \in 1..e : /\ \A k \in i..e : k \in solid
                                      /\ (i = 1 \/ (i - 1) \notin solid) IN
         SubSeq(v, b, e)

\* C27: the vendor code of a mapped row is the last token of the raw code,
\* the tokens being separated by runs of white space of any kind (space,
\* tab, newline, no-break space, full-width space): "0000 00 995668D" gives
\* "995668D" with ASCII and with full-width spaces alike, a code of one token
\* is returned as it is, and normalizing the result again changes nothing.
C27_LastTokenKept ==
    rawRow.given =>
        LET v == rawRow.vCode
            out == mapped.vendorProductCode IN
        /\ out = LastToken(v)
        /\ out = VendorCodeOf(AsciiSpaced(v))
        /\ (\A i \in 1..Len(v) : v[i] \notin WhiteSpace) => out = v
        /\ VendorCodeOf(out) = out
        /\ v \in {<<"0", "0", "0", "0", " ", "0", "0", " ", "9", "9", "5", "6", "6", "8", "D">>,
                  <<"0", "0", "0", "0", "FW", "0", "0", "FW", "9", "9", "5", "6", "6", "8", "D">>}
              => out = <<"9", "9", "5", "6", "6", "8", "D">>

\* the code written with full-width spaces has been normalized
C27_Witness ==
    /\ rawRow.given
    /\ rawRow.vCode = <<"0", "0", "0", "0", "FW", "0", "0", "FW", "9", "9", "5", "6", "6", "8", "D">>
    /\ mapped.vendorProductCode = <<"9", "9", "5", "6", "6", "8", "D">>

\* the items with an id of ids that are marked verified
VerifiedAmong(its, ids) == {it \in its : it.id \in ids /\ it.isVerified}

\* C28: an item that an extraction has just created (its id was nowhere
\* before) is not verified, in the state and in the store; right after the
\* reset of a retry no item that the job had when the retry was invoked is
\* left verified, and right after the purge of a page reprocessing no item
\* that the page had is, in the state or in the store: whatever is verified
\* afterwards, the user has verified since.
C28_FreshUnverified ==
    /\ [][\A it \in items' \cup dbItems' :
             (\A old \in items \cup dbItems : old.id # it.id) => ~it.isVerified]_vars
    /\ [](\A r \in RunIds :
             JustReset(r) => VerifiedAmong(items \cup dbItems, runs[r].pre) = {})
    /\ [](\A q \in ReprocIds :
             reprocs[q].pc = "load" => VerifiedAmong(items \cup dbItems, reprocs[q].ids) = {})

FreshlyQueued(job) == /\ job # NoJob
                      /\ job.status = "queued"
                      /\ job.totalPages = 0
                      /\ job.processedPages = 0

\* addFilesToQueue of the fixed-schema application has run: the jobs
\* nextJob .. nextJob' - 1 are new
EnqueuedFixed ==
    nextJob' > nextJob =>
        LET new == nextJob..(nextJob' - 1)
            started == nextRun..(nextRun' - 1) IN
        /\ \A j \in new : /\ jobs[j] = NoJob
                          /\ FreshlyQueued(jobs'[j])
                          /\ dbJobs'[j] = jobs'[j]
                          /\ Cardinality({r \in started : runs'[r].job = j}) = 1
        /\ Cardinality(started) = Cardinality(new)
        /\ \A r \in started : runs'[r].pc = "start" /\ runs'[r].job \in new
        /\ \A r \in DOMAIN runs \ started : runs'[r] = runs[r]
        /\ \A j \in DOMAIN jobs \ new : jobs'[j] = jobs[j] /\ dbJobs'[j] = dbJobs[j]
        /\ UNCHANGED <<items, dbItems, dbImages>>

\* addFilesToQueue of DynamicApp has run with a template selected: the jobs
\* dynNext .. dynNext' - 1 are new
EnqueuedDynamic ==
    dynNext' > dynNext =>
        LET new == dynNext..(dynNext' - 1) IN
        /\ \A j \in new : /\ dynJobs[j] = NoJob
                          /\ FreshlyQueued(dynJobs'[j])
                          /\ dbJobs'[j] # NoJob
                          /\ dbJobs'[j].status = "queued"
                          /\ dynRuns'[j] = "start"
        /\ \A j \in (1..MaxJobs) \ new : dynJobs'[j] = dynJobs[j] /\ dynRuns'[j] = dynRuns[j]

\* C29: enqueueing k files makes exactly k new jobs, each queued with
\* totalPages 0 and processedPages 0 and each written to the job store, and
\* starts one run for each of them, none of which has taken a step when
\* enqueue returns; every other job, in the state and in the store, is as
\* before.  In both applications.
C29_EnqueueCreatesJobs == [][EnqueuedFixed /\ EnqueuedDynamic]_vars

\* a response text with no '{' or no '}' in it (the empty one included)
NoDelimiters(text) == \A a, b \in 1..Len(text) : ~(text[a] = "{" /\ text[b] = "}")
\* the call of page i of run r settles in this step
Settles(r, i) == <<r, i>> \in limiter.running /\ <<r, i>> \notin limiter'.running

\* C30: when the call of a page settles on a response that is empty or has
\* no '{' or no '}', the page fails: no item is added to the state or to the
\* store, the page is marked failed, and the slot of the call is free again
\* (or handed to the next waiting call).  When the response is a valid
\* object inside code-fence marks, the page succeeds with the rows of the
\* object.
C30_UnusableResponseFails ==
    [][\A rep \in replies :
          LET r == rep.call[1]
              i == rep.call[2] IN
          Settles(r, i) =>
              /\ IF limiter.queue = <<>>
                 THEN limiter'.activeCount = limiter.activeCount - 1
                 ELSE Head(limiter.queue) \in limiter'.running
              /\ NoDelimiters(rep.text) =>
                    /\ items' = items
                    /\ dbItems' = dbItems
                    /\ runs'[r].res[i + 1] = "fail"
                    /\ runs'[r].completedCount = runs[r].completedCount
              /\ rep.text = Fenced(OneRow) =>
                    /\ Cardinality(items') = Cardinality(items) + 1
                    /\ Cardinality(dbItems') = Cardinality(dbItems) + 1
                    /\ runs'[r].completedCount = runs[r].completedCount + 1
              /\ rep.text = Fenced(NoRows) =>
                    /\ items' = items
                    /\ runs'[r].completedCount = runs[r].completedCount + 1]_vars

\* the first page was answered with a fenced object and gave an item, the
\* second with a text without braces and failed
C30_Witness ==
    /\ [call |-> <<1, 0>>, text |-> Fenced(OneRow)] \in replies
    /\ [call |-> <<1, 1>>, text |-> <<"x", "BT">>] \in replies
    /\ \E it \in items : it.pageNumber = 1
    /\ runs[1].settled = 2
    /\ runs[1].completedCount = 1

\* how many columns a field is to give
ColumnCount(field) ==
    IF field.type = "object" /\ field.hasProperties THEN Len(field.children) ELSE 1
RECURSIVE ColumnsBefore(_, _)
ColumnsBefore(fields, i) ==
    IF i = 1 THEN 0 ELSE ColumnsBefore(fields, i - 1) + ColumnCount(fields[i - 1])

\* C31: an array field with child definitions gives one column, an object
\* field with property definitions one column for each property, every
\* other field one column; the columns stand in the order of the fields;
\* and a column is editable unless it belongs to a field named boundingBox,
\* which gives no editable column whatever its type and children.
C31_ColumnsDerived ==
    template.given =>
        LET fields == template.fields IN
        /\ Len(columns) = ColumnsBefore(fields, Len(fields) + 1)
        /\ \A i \in 1..Len(fields) : \A k \in 1..ColumnCount(fields[i]) :
              LET col == columns[ColumnsBefore(fields, i) + k] IN
              /\ col.key[1] = fields[i].name
              /\ (fields[i].type = "object" /\ fields[i].hasProperties) =>
                     col.key = <<fields[i].name, fields[i].children[k]>>
              /\ col.editable = (fields[i].name # "boundingBox")

\* C32: a call that fails, at the file read, at the service or at the
\* parse, gives its slot back in the step in which it fails and is never in
\* flight again; when every submitted call has settled no call is counted
\* as in flight and none waits; and a call that waits is eventually
\* started, however many calls before it fail.
C32_FailureReleasesSlot ==
    /\ [][\A c \in 1..MaxCalls :
             (callState[c] \notin CallFailures /\ callState'[c] \in CallFailures) =>
                 /\ c \in limiter.running
                 /\ c \notin limiter'.running
                 /\ limiter'.activeCount =
                       IF limiter.queue = <<>> THEN limiter.activeCount - 1
                       ELSE limiter.activeCount]_vars
    /\ [](\A c \in 1..MaxCalls :
             callState[c] \in CallSettled => c \notin limiter.running \cup Waiting(limiter))
    /\ []((\A c \in 1..MaxCalls : callState[c] \in CallSettled \cup {"none"}) =>
             /\ limiter.activeCount = 0
             /\ limiter.running = {}
             /\ limiter.queue = <<>>)
    /\ \A c \in 1..MaxCalls : (c \in Waiting(limiter)) ~> (callState[c] \in CallSettled)

\* every call has failed, in each of the three ways, and the limiter is idle
C32_Witness ==
    /\ \A c \in 1..MaxCalls : callState[c] \in CallFailures
    /\ \A f \in CallFailures : \E c \in 1..MaxCalls : callState[c] = f
    /\ limiter.activeCount = 0

\* what the claim calls a job: its record in the list and in the store, and
\* the items tagged with its id in the working set and in the store
JobView(b) == <<jobs[b], dbJobs[b], JobItems(items, b), JobItems(dbItems, b)>>

\* a step of the pipeline, of a retry, of a delete or of a page reprocessing
\* of job a
StepOfJob(a) ==
    \/ \E r \in RunIds :
          /\ runs[r].job = a
          /\ \/ RunStart(r) \/ CheckFirstPage(r) \/ RasterOk(r) \/ RasterFail(r)
             \/ SaveImage(r) \/ ResumeRead(r) \/ Complete(r) \/ RetryReset(r)
             \/ \E i \in 0..(MaxPages - 1) : PageFail(r, i)
             \/ \E i \in 0..(MaxPages - 1) : \E k \in 0..MaxItems : PageSuccess(r, i, k)
    \/ RetryClick(a) \/ DeleteClick(a) \/ DeleteFinish(a)
    \/ \E p \in 1..MaxPages : ReprocClick(a, p)
    \/ \E q \in ReprocIds :
          /\ reprocs[q].job = a
          /\ \/ ReprocPurge(q) \/ ReprocLoad(q) \/ ReprocFail(q)
             \/ \E k \in 0..MaxItems : ReprocSuccess(q, k)

\* C33: a step of job A (of its run, of its retry, of its deletion or of the
\* reprocessing of one of its pages) leaves the record of every other job B
\* and the items tagged with B's id as they are, in the working set and in
\* the store.
C33_JobsIndependent ==
    [][\A a \in JobIds : \A b \in JobIds \ {a} :
          StepOfJob(a) => JobView(b)' = JobView(b)]_vars

\* job 1 failed and is run again while job 2 is at work and has items
C33_Witness ==
    /\ cap.jobs = 2
    /\ \E r \in RunIds : runs[r].job = 1 /\ r > 2 /\ runs[r].pc \notin {"idle", "retry"}
    /\ jobs[2] # NoJob
    /\ jobs[2].status = "processing"
    /\ JobItems(items, 2) # {}

\* the runs of processJob for job j that have started and not yet returned
RunsOf(j) == {r \in RunIds : runs[r].job = j /\ runs[r].pc \notin {"idle", "retry"}}

\* C34: at no moment are two runs of processJob at work on the same job.
C34_OneRunPerJob == \A j \in JobIds : Cardinality(RunsOf(j)) <= 1

\* the number of page images the first run of a job with file f prepares
PagesOfFile(f) == IF f.pdf THEN Len(RasterPages(0, f)) ELSE 1

\* C35: a run that took its pages from the stored images enters the
\* processing phase with as many pages as the job's file has.
C35_ResumeAllPages ==
    \A r \in RunIds :
        (runs[r].resumed /\ runs[r].pc \in {"pages", "finishing"})
            => Len(runs[r].pages) = PagesOfFile(runs[r].file)

\* the step in which the reprocessing q gives up: the image is absent, or
\* the extraction call has failed
ReprocGivesUp(q) ==
    /\ reprocs[q].pc \in {"load", "call"}
    /\ reprocs'[q] = IdleReproc
    /\ loads' = loads
    /\ jobs'[reprocs[q].job] # NoJob
    /\ jobs'[reprocs[q].job].msg[1] \in {"reprocfailed", "reprocfailed: Page image not found"}

\* C36: when a targeted reprocessing of page p of job j gives up, neither
\* the working set nor the store holds an item of (j, p) any more, and the
\* step itself changes no item.
C36_FailedReprocessLeavesNoItem ==
    [][\A q \in ReprocIds :
          ReprocGivesUp(q) =>
              /\ PageItems(items', reprocs[q].job, reprocs[q].page) = {}
              /\ PageItems(dbItems', reprocs[q].job, reprocs[q].page) = {}
              /\ items' = items
              /\ dbItems' = dbItems]_vars

\* the image loadAllData looks up for an item
ImageFor(it) == GetPageImage(it.jobId, it.pageNumber - 1)

\* C37: the image that a restore attaches to an item is the image of the
\* page the item was extracted from.  When a run takes in the items of a
\* page, the image stored under (job id, page number - 1) is the page image
\* it handed to the extraction call; and every item that a reload returns
\* with an image gets the image of the page, of its own job, whose call
\* produced it.
C37_ImageOfOwnPage ==
    /\ [][loads' = loads =>
             \A it \in items' \ items : \A r \in RunIds :
                 (it.id[1] = r /\ runs[r].pc = "pages") =>
                     /\ it.jobId = runs[r].job
                     /\ ImageFor(it) = runs[r].pages[it.id[2] + 1]]_vars
    /\ [][loads' # loads =>
             \A it \in items' :
                 "sourceImageUrl" \in DOMAIN it =>
                     /\ it.sourceImageUrl = <<loads'>> \o it.id
                     /\ ImageFor(it) = <<it.jobId, it.id[2]>>]_vars

\* after a reload the working set holds an item of page 2 that a retry run
\* produced from the stored images, with the image of index 1
C37_Witness ==
    \E it \in items :
        /\ loads > 0
        /\ "sourceImageUrl" \in DOMAIN it
        /\ it.sourceImageUrl = <<loads>> \o it.id
        /\ it.id[1] = 2
        /\ it.pageNumber = 2
        /\ ImageFor(it) = <<it.jobId, 1>>

RowsOf(j) == {i \in DOMAIN sheetJobs : sheetJobs[i].id = j}
ItemRowsOf(j) == {m \in DOMAIN sheetItems : sheetItems[m].jobId = j}

\* C38: processFile writes item rows only after every page was extracted,
\* and then the rows of its own job; an execution whose page failed has
\* returned the failure value with the row of its job at error, 0 pages of
\* 0, and no item row of the job; and the Jobs sheet never holds two rows
\* with the same id.
C38_AllOrNothing ==
    /\ [][sheetItems' # sheetItems =>
             \E e \in 1..MaxExecs :
                 /\ gasExec[e].pc = "items"
                 /\ gasExec[e].i = gasExec[e].n
                 /\ Len(sheetItems') >= Len(sheetItems)
                 /\ SubSeq(sheetItems', 1, Len(sheetItems)) = sheetItems
                 /\ \A m \in (Len(sheetItems) + 1)..Len(sheetItems') :
                        sheetItems'[m].jobId = gasExec[e].job]_vars
    /\ [](\A e \in 1..MaxExecs :
             gasExec[e].pc = "failure" =>
                 /\ \E i \in RowsOf(gasExec[e].job) :
                        sheetJobs[i] = JobRow(gasExec[e].job, "error", 0, 0)
                 /\ ItemRowsOf(gasExec[e].job) = {})
    /\ [](\A j \in 1..MaxExecs : Cardinality(RowsOf(j)) <= 1)

\* one execution has failed and another has stored its items; each of the
\* two jobs has its row
C38_Witness ==
    \E e, f \in 1..MaxExecs :
        /\ gasExec[e].pc = "failure"
        /\ gasExec[f].pc = "success"
        /\ ItemRowsOf(gasExec[f].job) # {}
        /\ Len(sheetJobs) >= 2

\* the lookup of the template of job j ends in this step
LookupEnds(j) == dynRuns[j] = "lookup" /\ dynRuns'[j] # "lookup"

\* C39: a job of the dynamic-schema application carries, from its creation
\* on, the id of the template that was selected when it was enqueued; with
\* no template selected addFilesToQueue creates no job; and when the
\* template of a job is not found, the job goes from processing to error
\* with the message, no extraction call is issued for it and no item is
\* created.
C39_TemplateBound ==
    [][/\ dynNext' > dynNext =>
             /\ selectedTemplate # <<>>
             /\ \A j \in dynNext..(dynNext' - 1) : dynJobs'[j].templateId = selectedTemplate
       /\ \A j \in 1..MaxJobs :
             dynJobs[j] # NoJob =>
                 dynJobs'[j] # NoJob /\ dynJobs'[j].templateId = dynJobs[j].templateId
       /\ (selectedTemplate = <<>> /\ selectedTemplate' = <<>>) =>
             dynJobs' = dynJobs /\ dynNext' = dynNext
       /\ \A j \in 1..MaxJobs :
             (LookupEnds(j) /\ ~TemplateExists(dynJobs[j].templateId)) =>
                 /\ dynJobs[j].status = "processing"
                 /\ dynJobs'[j].status = "error"
                 /\ dynJobs'[j].err = "notemplate"
                 /\ dynCalls'[j] = NoCalls
                 /\ dynItems' = dynItems]_vars

\* the template of a job was deleted while its file was converted: the job
\* has failed for it, while another template is selected and found
C39_Witness ==
    \E j \in 1..MaxJobs :
        /\ dynJobs[j] # NoJob
        /\ dynJobs[j].err = "notemplate"
        /\ dynJobs[j].templateId # selectedTemplate
        /\ TemplateExists(selectedTemplate)
        /\ ~TemplateExists(dynJobs[j].templateId)
====
